---------------------------- MODULE Spec2Model ----------------------------
(***************************************************************************)
(* Event-phase resolution engine of the XR Awards site (the date checker   *)
(* utility): getEventPhase and the helpers built on it.                    *)
(*                                                                         *)
(* Time is in milliseconds since the epoch, as Date.getTime() reports it.  *)
(* A Date object is a record [kind, ms]: kind "date" is a valid date,      *)
(* kind "invalid" is the Invalid Date that new Date(s) makes of an         *)
(* unparseable string (its time value is NaN), kind "absent" is the null   *)
(* the code keeps for a column that is empty.                              *)
(***************************************************************************)
EXTENDS Integers, Sequences, FiniteSets, TLC

(***************************************************************************)
(* Program constants                                                       *)
(***************************************************************************)
MsPerHour == 3600000

MsPerDay == 86400000

HoursPerDay == 24

\* (a threshold of six days)
UrgentDaysShort == 7 - 1

UrgentDays == 7

\* (no day of grace: only a countdown of zero days counts)
UrgentDaysClosedNone == 1 - 1

UrgentDaysClosed == 1

NominationPortalFallback == "https://app.aixr.org/e/20a6e09d-7e86-488d-8436-1cd162d0f5df"

TicketsPortalFallback == "https://events.unitedxr.eu/2025?utm_source=AIXR&utm_medium=XR+Awards+Website&utm_campaign=link"

Phases == {"pre-nominations", "nominations-open", "nominations-closed",
           "finalists-announced", "judging-period", "post-ceremony"}

(***************************************************************************)
(* Bounds of the model                                                     *)
(***************************************************************************)
\* How many distinct instants the milestone columns are drawn from.
NumInstants == 3

\* The most milliseconds the clock advances between the two clock reads of
\* one resolution (now, then currentTime).
MaxClockLag == 1

\* The days (since the epoch) of the instants the milestone columns hold: a
\* week apart and a day apart, so that the seven-day and the 24-hour rules
\* both have their boundary cases; the fourth falls at noon.
MilestoneDays == <<1, 8, 9, 3, 16>>

MilestoneHours == <<0, 0, 0, 12, 0>>

Instants == {MilestoneDays[k] * MsPerDay + MilestoneHours[k] * MsPerHour : k \in 1..NumInstants}

\* The first clock read falls at an instant, a millisecond before it, and 23
\* hours before it; the second read follows by up to MaxClockLag.
ClockOffsets == {0 - 1, 0, MsPerHour - MsPerDay}

ClockTimes == {g + o : g \in Instants, o \in ClockOffsets}

\* The offset of the process's local time from UTC: UTC itself, and
\* central European time.
TzOffsets == {0, MsPerHour}

EventYears == {2025}

PortalUrls == {"", "https://portal.example/custom"}

(***************************************************************************)
(* Dates                                                                   *)
(***************************************************************************)
NoDate == [kind |-> "absent", ms |-> 0]

InvalidDate == [kind |-> "invalid", ms |-> 0]

DateAt(t) == [kind |-> "date", ms |-> t]

\* A date column of an event_details row as the client returns it: null, an
\* ISO timestamp (of time value ms), or a string that is no timestamp.
NullColumn == [null |-> TRUE, iso |-> FALSE, ms |-> 0]

MalformedColumn == [null |-> FALSE, iso |-> FALSE, ms |-> 0]

Timestamp(t) == [null |-> FALSE, iso |-> TRUE, ms |-> t]

ValidColumns == {NullColumn} \cup {Timestamp(t) : t \in Instants}

DateColumns == ValidColumns \cup {MalformedColumn}

\* column ? new Date(column) : null
ParseColumn(c) ==
  IF c.null THEN NoDate ELSE IF c.iso THEN DateAt(c.ms) ELSE InvalidDate

\* The truthiness test `d && ...`: null is falsy, every Date object (the
\* Invalid Date too) is truthy.
Truthy(d) == d.kind # "absent"

\* Relational comparison of a time value with a Date: with NaN on either
\* side every comparison is false.
\* (an inclusive comparison where the code's is strict)
TimeLtInclusive(t, d) == d.kind = "date" /\ t <= d.ms

TimeLt(t, d) == d.kind = "date" /\ t < d.ms

\* (a strict comparison where the code's is inclusive)
TimeLeStrict(t, d) == d.kind = "date" /\ t < d.ms

TimeLe(t, d) == d.kind = "date" /\ t <= d.ms

\* (the comparison turned round)
TimeGtReversed(t, d) == d.kind = "date" /\ t < d.ms

TimeGt(t, d) == d.kind = "date" /\ t > d.ms

\* (a strict comparison where the code's is inclusive)
TimeGeStrict(t, d) == d.kind = "date" /\ t > d.ms

TimeGe(t, d) == d.kind = "date" /\ t >= d.ms

\* Math.ceil(a / b) for b > 0 (a of either sign).
CeilDiv(a, b) == 0 - ((0 - a) \div b)

Abs(a) == IF a < 0 THEN 0 - a ELSE a

(***************************************************************************)
(* Helpers of the date checker                                             *)
(***************************************************************************)
\* (the difference taken signed, date1 - date2, without Math.abs)
daysBetweenSigned(t1, t2) == CeilDiv(t1 - t2, MsPerDay)

\* daysBetween(date1, date2), on the time values of two valid dates.
daysBetween(t1, t2) == CeilDiv(Abs(t2 - t1), MsPerDay)

\* `day${n !== 1 ? 's' : ''}`
Plural(word, n) == IF n # 1 THEN IF word = "day" THEN "days" ELSE "hours" ELSE word

\* A piece of display text with a number in it: `${text} ${n} ${unit} ${suffix}`.
Message(text, n, unit, suffix) == [text |-> text, n |-> n, unit |-> unit, suffix |-> suffix]

\* (the hour branch taken up to and including 24 rounded-up hours)
getTimeUntilMessageUpTo24(target, currentTime) ==
  LET diffTime  == target - currentTime
      diffHours == CeilDiv(diffTime, MsPerHour)
      diffDays  == CeilDiv(diffTime, MsPerDay)
  IN  IF diffTime <= 0
      THEN [days |-> 0, message |-> Message("Today", 0, "", "")]
      ELSE IF diffHours <= HoursPerDay
      THEN [days |-> 0, message |-> Message("in", diffHours, Plural("hour", diffHours), "")]
      ELSE [days |-> diffDays, message |-> Message("in", diffDays, Plural("day", diffDays), "")]

\* getTimeUntilMessage(targetDate, currentTime): {days, message}.
getTimeUntilMessage(target, currentTime) ==
  LET diffTime  == target - currentTime
      diffHours == CeilDiv(diffTime, MsPerHour)
      diffDays  == CeilDiv(diffTime, MsPerDay)
  IN  IF diffTime <= 0
      THEN [days |-> 0, message |-> Message("Today", 0, "", "")]
      ELSE IF diffHours < HoursPerDay
      THEN [days |-> 0, message |-> Message("in", diffHours, Plural("hour", diffHours), "")]
      ELSE [days |-> diffDays, message |-> Message("in", diffDays, Plural("day", diffDays), "")]

\* message.includes('hour')
MentionsHours(m) == m.unit \in {"hour", "hours"}

\* The calendar day (days since the epoch) of time t in the process's local
\* time zone: what getFullYear/getMonth/getDate and toLocaleDateString read.
LocalDay(t, tz) == (t + tz) \div MsPerDay

\* new Date(Date.UTC(now.getFullYear(), now.getMonth(), now.getDate())):
\* midnight UTC of the local calendar day of now.
Today(now, tz) == LocalDay(now, tz) * MsPerDay

\* formatDate(date): the local calendar day, written day month year.
formatDate(t, tz) == LocalDay(t, tz)

\* `${label} ${formatDate(date)}`, and the two labels that carry no date.
Milestone(label, t, tz) == [label |-> label, dated |-> TRUE, day |-> formatDate(t, tz)]

MilestoneText(label) == [label |-> label, dated |-> FALSE, day |-> 0]

Href(base) == [base |-> base, year |-> 0]

WinnersHref(year) == [base |-> "/winners-and-finalists-", year |-> year]

Button(text, href) == [text |-> text, href |-> href, variant |-> "primary"]

\* (the fixed address whatever the column holds)
OrFallbackAlways(url, fallback) == fallback

\* column || fallback
OrFallback(url, fallback) == IF url = "" THEN fallback ELSE url

RegisterInterestButton == Button("Register Interest", Href("/register-interest/"))

TicketsButton(ev) == Button("Secure Tickets", Href(OrFallback(ev.tickets_portal_url, TicketsPortalFallback)))

\* statusMessage: `${lead} ${message}`.
Status(lead, message) == [lead |-> lead, message |-> message]

\* `${lead} in ${n} day${n !== 1 ? 's' : ''}`
DayStatus(lead, n) == Status(lead, Message("in", n, Plural("day", n), ""))

\* (isUrgent computed by the seven-day rule in every branch)
PhaseResultSevenDay(phase, days, milestone, button, status, urgent) ==
  [threw |-> FALSE, phase |-> phase, daysUntilNext |-> days, nextMilestone |-> milestone,
   ctaButton |-> button, statusMessage |-> status, isUrgent |-> days <= UrgentDays]

\* A returned EventPhase (debugInfo left out), and a rejected promise.
PhaseResult(phase, days, milestone, button, status, urgent) ==
  [threw |-> FALSE, phase |-> phase, daysUntilNext |-> days, nextMilestone |-> milestone,
   ctaButton |-> button, statusMessage |-> status, isUrgent |-> urgent]

Thrown(what) ==
  [threw |-> TRUE, phase |-> what, daysUntilNext |-> 0, nextMilestone |-> MilestoneText(""),
   ctaButton |-> Button("", Href("")), statusMessage |-> Status("", Message("", 0, "", "")),
   isUrgent |-> FALSE]

\* (the fallback flagged urgent)
FallbackUrgent ==
  PhaseResult("pre-nominations", 0, MilestoneText("Event details coming soon"),
              RegisterInterestButton,
              Status("Event details are being finalized", Message("", 0, "", "")), TRUE)

Fallback ==
  PhaseResult("pre-nominations", 0, MilestoneText("Event details coming soon"),
              RegisterInterestButton,
              Status("Event details are being finalized", Message("", 0, "", "")), FALSE)

\* (date.toISOString() without the optional chaining: throws on null too)
ToISOStringUnguarded(d) == d.kind # "date"

\* date?.toISOString(): throws a RangeError on an Invalid Date.
ToISOStringThrows(d) == d.kind = "invalid"

(***************************************************************************)
(* getEventPhase                                                           *)
(***************************************************************************)
\* The body of getEventPhase after the row is fetched: found is what
\* getActiveEventDetails returned ({} for null, {row} for a row), now and
\* currentTime are the two clock reads, tz the process's time zone offset.
ResolvePhase(found, now, currentTime, tz) ==
  IF found = {} THEN Fallback
  ELSE
  LET eventDetails       == CHOOSE r \in found : TRUE
      today              == Today(now, tz)
      nominationsOpen    == ParseColumn(eventDetails.nominations_open)
      nominationsClose   == ParseColumn(eventDetails.nominations_close)
      finalistsAnnounced == ParseColumn(eventDetails.finalists_announced)
      judgingStart       == ParseColumn(eventDetails.judging_period_start)
      judgingEnd         == ParseColumn(eventDetails.judging_period_end)
      ceremony           == ParseColumn(eventDetails.awards_ceremony)
  IN
  IF \E d \in {nominationsOpen, nominationsClose, finalistsAnnounced,
               judgingStart, judgingEnd, ceremony} : ToISOStringThrows(d)
  THEN Thrown("RangeError")
  ELSE IF Truthy(nominationsOpen) /\ TimeLt(currentTime, nominationsOpen)
  THEN LET daysUntil == daysBetween(today, nominationsOpen.ms)
       IN  PhaseResult("pre-nominations", daysUntil,
                       Milestone("Nominations open", nominationsOpen.ms, tz),
                       RegisterInterestButton,
                       DayStatus("Nominations open", daysUntil),
                       daysUntil <= UrgentDays)
  ELSE IF /\ Truthy(nominationsOpen) /\ Truthy(nominationsClose)
          /\ TimeGe(currentTime, nominationsOpen) /\ TimeLe(currentTime, nominationsClose)
  THEN LET daysUntil == daysBetween(today, nominationsClose.ms)
       IN  PhaseResult("nominations-open", daysUntil,
                       Milestone("Nominations close", nominationsClose.ms, tz),
                       Button("Nominate Now",
                              Href(OrFallback(eventDetails.nomination_portal_url, NominationPortalFallback))),
                       DayStatus("Nominations close", daysUntil),
                       daysUntil <= UrgentDays)
  ELSE IF /\ Truthy(nominationsClose) /\ Truthy(finalistsAnnounced)
          /\ TimeGt(currentTime, nominationsClose) /\ TimeLt(currentTime, finalistsAnnounced)
  THEN LET timeInfo == getTimeUntilMessage(finalistsAnnounced.ms, currentTime)
       IN  PhaseResult("nominations-closed", timeInfo.days,
                       Milestone("Finalists announced", finalistsAnnounced.ms, tz),
                       TicketsButton(eventDetails),
                       Status("Finalists announced", timeInfo.message),
                       timeInfo.days <= UrgentDaysClosed \/ MentionsHours(timeInfo.message))
  ELSE IF /\ Truthy(finalistsAnnounced) /\ Truthy(judgingStart)
          /\ TimeGe(currentTime, finalistsAnnounced) /\ TimeLt(currentTime, judgingStart)
  THEN LET daysUntil == daysBetween(today, judgingStart.ms)
       IN  PhaseResult("finalists-announced", daysUntil,
                       Milestone("Judging begins", judgingStart.ms, tz),
                       TicketsButton(eventDetails),
                       DayStatus("Judging begins", daysUntil),
                       FALSE)
  ELSE IF /\ Truthy(judgingStart) /\ Truthy(judgingEnd)
          /\ TimeGe(currentTime, judgingStart) /\ TimeLe(currentTime, judgingEnd)
  THEN LET daysUntil == daysBetween(today, judgingEnd.ms)
       IN  PhaseResult("judging-period", daysUntil,
                       Milestone("Judging ends", judgingEnd.ms, tz),
                       TicketsButton(eventDetails),
                       Status("Judging in progress -",
                              Message("", daysUntil, Plural("day", daysUntil), "remaining")),
                       FALSE)
  ELSE IF /\ Truthy(judgingEnd) /\ Truthy(ceremony)
          /\ TimeGt(currentTime, judgingEnd) /\ TimeLt(currentTime, ceremony)
  THEN LET daysUntil == daysBetween(today, ceremony.ms)
       IN  PhaseResult("finalists-announced", daysUntil,
                       Milestone("Awards ceremony", ceremony.ms, tz),
                       TicketsButton(eventDetails),
                       DayStatus("Awards ceremony", daysUntil),
                       daysUntil <= UrgentDays)
  ELSE IF Truthy(ceremony) /\ TimeGt(currentTime, ceremony)
  THEN PhaseResult("post-ceremony", 0, MilestoneText("Event completed"),
                   Button("View Winners", WinnersHref(eventDetails.event_year)),
                   Status("Event completed - view the winners", Message("", 0, "", "")),
                   FALSE)
  ELSE Fallback

(***************************************************************************)
(* The helpers built on getEventPhase                                      *)
(***************************************************************************)
Contexts == {"header", "hero", "footer", "travel"}

\* (the hero button sent to the fixed nomination portal)
getCTAButtonHeroFixedHref(eventPhase, context) ==
  CASE context = "hero" /\ eventPhase.phase = "nominations-open" ->
         Button("Submit Your Nomination", Href(NominationPortalFallback))
    [] context = "footer" /\ eventPhase.phase = "post-ceremony" ->
         Button("Register Interest Now", Href("/register-interest/"))
    [] context = "travel" /\ eventPhase.phase # "post-ceremony" ->
         Button("Secure Tickets", eventPhase.ctaButton.href)
    [] OTHER -> eventPhase.ctaButton

\* (the footer button keeping the address of the default button)
getCTAButtonFooterYear(eventPhase, context) ==
  CASE context = "hero" /\ eventPhase.phase = "nominations-open" ->
         [eventPhase.ctaButton EXCEPT !.text = "Submit Your Nomination"]
    [] context = "footer" /\ eventPhase.phase = "post-ceremony" ->
         [eventPhase.ctaButton EXCEPT !.text = "Register Interest Now"]
    [] context = "travel" /\ eventPhase.phase # "post-ceremony" ->
         Button("Secure Tickets", eventPhase.ctaButton.href)
    [] OTHER -> eventPhase.ctaButton

\* (the travel override applied after the ceremony too)
getCTAButtonTravelAlways(eventPhase, context) ==
  CASE context = "hero" /\ eventPhase.phase = "nominations-open" ->
         [eventPhase.ctaButton EXCEPT !.text = "Submit Your Nomination"]
    [] context = "footer" /\ eventPhase.phase = "post-ceremony" ->
         Button("Register Interest Now", Href("/register-interest/"))
    [] context = "travel" ->
         Button("Secure Tickets", eventPhase.ctaButton.href)
    [] OTHER -> eventPhase.ctaButton

\* (the hero override applied in every phase)
getCTAButtonHeroAlways(eventPhase, context) ==
  CASE context = "hero" ->
         [eventPhase.ctaButton EXCEPT !.text = "Submit Your Nomination"]
    [] context = "footer" /\ eventPhase.phase = "post-ceremony" ->
         Button("Register Interest Now", Href("/register-interest/"))
    [] context = "travel" /\ eventPhase.phase # "post-ceremony" ->
         Button("Secure Tickets", eventPhase.ctaButton.href)
    [] OTHER -> eventPhase.ctaButton

\* getCTAButton(context), on the EventPhase it awaited.
getCTAButton(eventPhase, context) ==
  CASE context = "hero" /\ eventPhase.phase = "nominations-open" ->
         [eventPhase.ctaButton EXCEPT !.text = "Submit Your Nomination"]
    [] context = "footer" /\ eventPhase.phase = "post-ceremony" ->
         Button("Register Interest Now", Href("/register-interest/"))
    [] context = "travel" /\ eventPhase.phase # "post-ceremony" ->
         Button("Secure Tickets", eventPhase.ctaButton.href)
    [] OTHER -> eventPhase.ctaButton

\* isInPhase(phase)
isInPhase(eventPhase, phase) == eventPhase.phase = phase

\* (isUrgent not carried through)
getCountdownInfoCalm(eventPhase) ==
  IF eventPhase.daysUntilNext = 0
  THEN [null |-> TRUE, days |-> 0, message |-> MilestoneText(""), isUrgent |-> FALSE]
  ELSE [null |-> FALSE, days |-> eventPhase.daysUntilNext,
        message |-> eventPhase.nextMilestone, isUrgent |-> FALSE]

\* getCountdownInfo(): null, or {days, message, isUrgent}.
getCountdownInfo(eventPhase) ==
  IF eventPhase.daysUntilNext = 0
  THEN [null |-> TRUE, days |-> 0, message |-> MilestoneText(""), isUrgent |-> FALSE]
  ELSE [null |-> FALSE, days |-> eventPhase.daysUntilNext,
        message |-> eventPhase.nextMilestone, isUrgent |-> eventPhase.isUrgent]

\* A call of one of the exported functions: its name and its argument.
CallOf(fn, arg) == [fn |-> fn, arg |-> arg]

PhaseCall == CallOf("getEventPhase", "")

Calls == {PhaseCall, CallOf("getCountdownInfo", "")}
           \cup {CallOf("getCTAButton", c) : c \in Contexts}
           \cup {CallOf("isInPhase", p) : p \in {"nominations-open", "post-ceremony"}}

\* What a call resolves to, given the EventPhase its getEventPhase produced;
\* the rejection of getEventPhase rejects the caller's promise too.
NoReturn ==
  [threw |-> FALSE, button |-> Button("", Href("")), flag |-> FALSE,
   countdown |-> getCountdownInfo(Fallback)]

Returned(c, eventPhase) ==
  IF eventPhase.threw THEN [NoReturn EXCEPT !.threw = TRUE]
  ELSE CASE c.fn = "getCTAButton"     -> [NoReturn EXCEPT !.button = getCTAButton(eventPhase, c.arg)]
         [] c.fn = "isInPhase"        -> [NoReturn EXCEPT !.flag = isInPhase(eventPhase, c.arg)]
         [] c.fn = "getCountdownInfo" -> [NoReturn EXCEPT !.countdown = getCountdownInfo(eventPhase)]
         [] OTHER                     -> NoReturn

(***************************************************************************)
(* The rows of event_details                                               *)
(***************************************************************************)
EventRow(no, nc, fa, js, je, ac, npu, tpu, yr) ==
  [nominations_open |-> no, nominations_close |-> nc, finalists_announced |-> fa,
   judging_period_start |-> js, judging_period_end |-> je, awards_ceremony |-> ac,
   nomination_portal_url |-> npu, tickets_portal_url |-> tpu, event_year |-> yr]

\* Every row whose six date columns are drawn from cols.
RowsOver(cols, urls) ==
  {EventRow(no, nc, fa, js, je, ac, npu, tpu, yr) :
     no \in cols, nc \in cols, fa \in cols, js \in cols, je \in cols, ac \in cols,
     npu \in urls, tpu \in urls, yr \in EventYears}

\* getActiveEventDetails(): .eq('is_active', true).single() gives the row
\* when exactly one row is active and null otherwise.
getActiveEventDetails(activeRows) ==
  IF Cardinality(activeRows) = 1 THEN activeRows ELSE {}

(***************************************************************************)
(* The articles API: the values it handles                                 *)
(***************************************************************************)
\* article_type TEXT NOT NULL CHECK (article_type IN (...))
ArticleTypes == {"expert-insight", "case-study", "update-press-release"}

\* A row of articles: the columns the handlers decide on.  published_at 0
\* is NULL.
Article(id, title, article_type, is_published, published_at) ==
  [id |-> id, title |-> title, article_type |-> article_type,
   is_published |-> is_published, published_at |-> published_at]

\* A row of a junction table.
Link(article_id, ref_id) == [article_id |-> article_id, ref_id |-> ref_id]

\* The fields of a JSON body: a boolean, a timestamp and a list of ids, each
\* of which may be absent (undefined); the timestamp may also be null.
NoFlag == [def |-> FALSE, val |-> FALSE]

Flag(b) == [def |-> TRUE, val |-> b]

NoTime == [def |-> FALSE, null |-> FALSE, at |-> 0]

NullTime == [def |-> TRUE, null |-> TRUE, at |-> 0]

TimeField(t) == [def |-> TRUE, null |-> FALSE, at |-> t]

NoIds == [def |-> FALSE, ids |-> <<>>]

Ids(s) == [def |-> TRUE, ids |-> s]

\* Truthiness of a boolean field and of a timestamp field.
FlagSet(f) == f.def /\ f.val

TimeSet(f) == f.def /\ ~f.null

\* The body of a request: id 0, title "", content "" and article_type ""
\* are absent.
Body(id, title, content, article_type, is_published, published_at, finalist_ids, judge_ids, sponsor_ids) ==
  [id |-> id, title |-> title, content |-> content, article_type |-> article_type,
   is_published |-> is_published, published_at |-> published_at,
   finalist_ids |-> finalist_ids, judge_ids |-> judge_ids, sponsor_ids |-> sponsor_ids]

NoBody == Body(0, <<>>, "", "", NoFlag, NoTime, NoIds, NoIds, NoIds)

\* The search parameters of a GET: "" and <<>> are absent; judge 0 is absent.
Query(type, status, search, judge, limit, offset) ==
  [type |-> type, status |-> status, search |-> search, judge |-> judge,
   limit |-> limit, offset |-> offset]

NoQuery == Query("", "", <<>>, 0, "", "")

\* What requireApiAuth resolves to: authenticated with a client, refused
\* with a status, or authenticated without a client.
AuthResult(authenticated, status, supabase) ==
  [authenticated |-> authenticated, status |-> status, supabase |-> supabase]

Authenticated == AuthResult(TRUE, 200, TRUE)

AuthResults ==
  {Authenticated, AuthResult(FALSE, 401, FALSE), AuthResult(FALSE, 403, FALSE),
   AuthResult(TRUE, 200, FALSE)}

\* (every request let through)
AuthFailureNever(auth) == 0

\* The status of the early return of an admin handler, 0 when it goes on:
\* if (!authResult.authenticated) ...; if (!supabase) ... 401.
AuthFailure(auth) ==
  IF ~auth.authenticated THEN auth.status
  ELSE IF ~auth.supabase THEN 401
  ELSE 0

\* updateData of PUT, as far as is_published and published_at go.
UpdateData(is_published, published_at) ==
  [is_published |-> is_published, published_at |-> published_at]

NoUpdate == UpdateData(NoFlag, NoTime)

\* .select('published_at').eq('id', id).single(): the published_at of the
\* row, 0 when it is NULL or there is no such row (existing is null).
ExistingPublishedAt(rows, id) ==
  IF \E a \in rows : a.id = id
  THEN (CHOOSE a \in rows : a.id = id).published_at
  ELSE 0

\* PUT: whether the handler reads the row before it updates it.
ReadsExisting(body) == ~body.published_at.def /\ FlagSet(body.is_published)

\* PUT: updateData, given what the read of the existing row returned and
\* the clock at that moment.
PutUpdateData(body, existing, clk) ==
  UpdateData(body.is_published,
             IF body.published_at.def THEN body.published_at
             ELSE IF FlagSet(body.is_published) /\ existing = 0 THEN TimeField(clk)
             ELSE NoTime)

\* .update(updateData).eq('id', id): keys that are undefined are not sent.
ApplyUpdate(rows, id, updateData) ==
  {IF a.id # id THEN a
   ELSE [a EXCEPT !.is_published = IF updateData.is_published.def
                                   THEN updateData.is_published.val ELSE @,
                  !.published_at = IF ~updateData.published_at.def THEN @
                                   ELSE IF updateData.published_at.null THEN 0
                                   ELSE updateData.published_at.at]
   : a \in rows}

\* POST: articleData.published_at.
PostPublishedAt(body, clk) ==
  IF TimeSet(body.published_at) THEN body.published_at.at
  ELSE IF FlagSet(body.is_published) THEN clk
  ELSE 0

\* The rows of the tables the junction tables refer to.
Finalists == {1, 2}

Judges == {1, 2}

Sponsors == {1}

LinksOf(links, article_id) == {l \in links : l.article_id = article_id}

\* One insert of several rows: none is stored when a referenced row does
\* not exist or UNIQUE(article_id, ref_id) is violated.
InsertAccepted(links, rows, article_id, ids, known) ==
  /\ \E a \in rows : a.id = article_id
  /\ \A k \in 1..Len(ids) : ids[k] \in known /\ Link(article_id, ids[k]) \notin links
  /\ \A k \in 1..Len(ids), l \in 1..Len(ids) : k # l => ids[k] # ids[l]

InsertLinks(links, rows, article_id, ids, known) ==
  IF InsertAccepted(links, rows, article_id, ids, known)
  THEN links \cup {Link(article_id, ids[k]) : k \in 1..Len(ids)}
  ELSE links

\* POST: if (ids && ids.length > 0) insert.
AddLinks(links, rows, article_id, field, known) ==
  IF field.def /\ Len(field.ids) > 0
  THEN InsertLinks(links, rows, article_id, field.ids, known)
  ELSE links

\* PUT: if (ids !== undefined) { delete; if (ids.length > 0) insert }.
ReplaceLinks(links, rows, article_id, field, known) ==
  IF ~field.def THEN links
  ELSE IF Len(field.ids) > 0
  THEN InsertLinks(links \ LinksOf(links, article_id), rows, article_id, field.ids, known)
  ELSE links \ LinksOf(links, article_id)

\* The operations on tables a handler performed.
Op(op, table) == [op |-> op, table |-> table]

LinkOps(field, table, replace) ==
  IF ~field.def THEN {}
  ELSE (IF replace THEN {Op("delete", table)} ELSE {})
         \cup (IF Len(field.ids) > 0 THEN {Op("insert", table)} ELSE {})

\* A request: the handler called, what it was given, how far it got
\* ("idle", "read", "done") and its response.
Request(pc, method, auth, body, query, updateData, status, ops, data, total) ==
  [pc |-> pc, method |-> method, auth |-> auth, body |-> body, query |-> query,
   updateData |-> updateData, status |-> status, ops |-> ops, data |-> data, total |-> total]

NoRequest == Request("idle", "", Authenticated, NoBody, NoQuery, NoUpdate, 0, {}, {}, 0)

Clients == {"p", "q"}

(***************************************************************************)
(* The public listing                                                      *)
(***************************************************************************)
\* The result of parseInt: a number or NaN.
Num(n) == [nan |-> FALSE, n |-> n]

NaN == [nan |-> TRUE, n |-> 0]

\* parseInt, on the parameter strings of the model.
ParseInt(str) ==
  CASE str = "0"   -> Num(0)
    [] str = "1"   -> Num(1)
    [] str = "2"   -> Num(2)
    [] str = "20"  -> Num(20)
    [] str = "250" -> Num(250)
    [] str = "-1"  -> Num(0 - 1)
    [] OTHER       -> NaN

\* param || fallback
ParamOr(param, fallback) == IF param = "" THEN fallback ELSE param

DefaultLimit == "20"

DefaultOffset == "0"

MaxLimit == 100

\* Math.min(x, MaxLimit)
MathMin(x, m) == IF x.nan THEN NaN ELSE IF x.n < m THEN x ELSE Num(m)

\* Lower case, on the letters of the model's titles.
Lower(c) ==
  CASE c = "X" -> "x"
    [] c = "R" -> "r"
    [] c = "D" -> "d"
    [] OTHER   -> c

LowerSeq(s) == [k \in 1..Len(s) |-> Lower(s[k])]

\* title ILIKE '%search%'
ILike(title, search) ==
  \E k \in 0..(Len(title) - Len(search)) :
    SubSeq(LowerSeq(title), k + 1, k + Len(search)) = LowerSeq(search)

\* Row level security on articles: everyone reads published rows,
\* authenticated users read all.
Roles == {"anon", "authenticated"}

Readable(rows, role) ==
  IF role = "authenticated" THEN rows ELSE {a \in rows : a.is_published}

\* (no filter at all)
IsPublishedOrDraft(a) == TRUE

\* .eq('is_published', true)
IsPublished(a) == a.is_published

\* ORDER BY published_at DESC: NULL comes first.
NotAfter(a, b) ==
  a.published_at = 0 \/ (b.published_at # 0 /\ a.published_at >= b.published_at)

\* The orders in which the database may return rows S.
Orders(S) ==
  {s \in [1..Cardinality(S) -> S] :
     /\ \A k \in 1..Cardinality(S), l \in 1..Cardinality(S) : k < l => NotAfter(s[k], s[l])
     /\ \A a \in S : \E k \in 1..Cardinality(S) : s[k] = a}

\* .range(from, to) on rows in order s.
Range(s, from, to) == {s[k] : k \in {k \in 1..Len(s) : from + 1 <= k /\ k <= to + 1}}

\* The judge branch: rows of article_judges of that judge with their
\* article, the article being published.
ByJudge(rows, links, role, judge) ==
  {a \in Readable(rows, role) :
     IsPublished(a) /\ \E l \in links : l.article_id = a.id /\ l.ref_id = judge}

\* The standard branch, before .range().
Listed(rows, role, query) ==
  {a \in Readable(rows, role) :
     /\ IsPublished(a)
     /\ query.type # "" => a.article_type = query.type
     /\ query.search # <<>> => ILike(a.title, query.search)}

(***************************************************************************)
(* The mailing function                                                    *)
(***************************************************************************)
DOWNLOAD_ENTRY_KIT == 9

REGISTER_INTEREST_AWARDS_OPTIN == 10

GENERAL_ERROR == "Unable to process your request. Please try again later"

\* A contact: "" is an absent field.
Contact(email, firstName, lastName, phone) ==
  [email |-> email, firstName |-> firstName, lastName |-> lastName, phone |-> phone]

Attribute(key, value) == [key |-> key, value |-> value]

\* (the phone kept whatever includePhone says)
buildPayloadKeepPhone(contact, listId, includePhone) ==
  [email |-> contact.email,
   attributes |->
     (IF contact.firstName # "" THEN {Attribute("FIRSTNAME", contact.firstName)} ELSE {})
       \cup (IF contact.lastName # "" THEN {Attribute("LASTNAME", contact.lastName)} ELSE {})
       \cup (IF contact.phone # "" THEN {Attribute("SMS", contact.phone)} ELSE {}),
   listIds |-> <<listId>>, updateEnabled |-> TRUE]

\* buildPayload(contact, listId, includePhone)
buildPayload(contact, listId, includePhone) ==
  [email |-> contact.email,
   attributes |->
     (IF contact.firstName # "" THEN {Attribute("FIRSTNAME", contact.firstName)} ELSE {})
       \cup (IF contact.lastName # "" THEN {Attribute("LASTNAME", contact.lastName)} ELSE {})
       \cup (IF includePhone /\ contact.phone # ""
             THEN {Attribute("SMS", contact.phone)} ELSE {}),
   listIds |-> <<listId>>, updateEnabled |-> TRUE]

\* response.ok
ResponseOk(status) == 200 <= status /\ status <= 299

\* !response.ok && response.status !== 201
Rejected(status) == ~ResponseOk(status) /\ status # 201

\* The call of addContactToList: where it stands ("idle", "first",
\* "second", "resolved", "rejected"), whether it found an API key, the
\* requests it sent, the statuses it received, whether a fetch threw, and
\* the message of the error it threw.
Mail(pc, key, contact, listId, sent, received, threw, error) ==
  [pc |-> pc, key |-> key, contact |-> contact, listId |-> listId, sent |-> sent,
   received |-> received, threw |-> threw, error |-> error]

NoMail == Mail("idle", FALSE, Contact("", "", "", ""), 0, <<>>, <<>>, FALSE, "")

(***************************************************************************)
(* State                                                                   *)
(***************************************************************************)
VARIABLES
  eventRows,    \* the active rows of the event_details table
  tz,           \* the process's offset from UTC, in ms
  clock,        \* the wall clock, in ms
  pc,           \* per caller: "idle", "fetching", "fetched" or "done"
  call,         \* per caller: the exported function it called
  eventDetails, \* per caller: what its getActiveEventDetails returned
  now,          \* per caller: its first clock read
  currentTime,  \* per caller: its second clock read
  eventPhase,   \* per caller: what its getEventPhase resolved to
  returned,     \* per caller: what its call resolved to
  articles,          \* the rows of the articles table
  article_finalists, \* the rows of the junction table to finalists
  article_judges,    \* the rows of the junction table to judges
  article_sponsors,  \* the rows of the junction table to sponsors
  requests,     \* per client: the API request it made and how far it got
  brevo         \* the call of addContactToList and its exchange with the mailing API

dateVars == <<eventRows, tz, clock, pc, call, eventDetails, now, currentTime, eventPhase, returned>>

tableVars == <<articles, article_finalists, article_judges, article_sponsors>>

apiVars == <<tableVars, requests, brevo>>

vars == <<dateVars, apiVars>>

Callers == {"a", "b"}

Idle ==
  /\ pc = [i \in Callers |-> "idle"]
  /\ call = [i \in Callers |-> PhaseCall]
  /\ eventDetails = [i \in Callers |-> {}]
  /\ now = [i \in Callers |-> 0]
  /\ currentTime = [i \in Callers |-> 0]
  /\ eventPhase = [i \in Callers |-> Fallback]
  /\ returned = [i \in Callers |-> NoReturn]

\* No request to the articles API or to the mailing function has been made.
ApiIdle ==
  /\ articles = {}
  /\ article_finalists = {}
  /\ article_judges = {}
  /\ article_sponsors = {}
  /\ requests = [r \in Clients |-> NoRequest]
  /\ brevo = NoMail

\* The synchronous part of getEventPhase, from the row the caller holds: the
\* two clock reads, lag ms apart, and the phase chain; then the caller's own
\* few lines on the EventPhase.
Compute(i, found, lag) ==
  /\ clock' = clock + lag
  /\ now' = [now EXCEPT ![i] = clock]
  /\ currentTime' = [currentTime EXCEPT ![i] = clock + lag]
  /\ eventPhase' = [eventPhase EXCEPT ![i] = ResolvePhase(found, clock, clock + lag, tz)]
  /\ returned' = [returned EXCEPT ![i] =
                    Returned(call[i], ResolvePhase(found, clock, clock + lag, tz))]
  /\ pc' = [pc EXCEPT ![i] = "done"]

\* One whole call of getEventPhase with nothing else running.
GetEventPhase(i) ==
  /\ pc[i] = "idle"
  /\ \E lag \in 0..MaxClockLag :
       /\ eventDetails' = [eventDetails EXCEPT ![i] = getActiveEventDetails(eventRows)]
       /\ Compute(i, getActiveEventDetails(eventRows), lag)
  /\ UNCHANGED <<eventRows, tz, call, apiVars>>

(***************************************************************************)
(* Resolution of one request: the inputs are drawn in the initial state    *)
(***************************************************************************)
Init ==
  /\ eventRows \in {{}} \cup {{r} : r \in RowsOver(ValidColumns, {""})}
  /\ tz \in TzOffsets
  /\ clock \in ClockTimes
  /\ Idle
  /\ ApiIdle

Next == GetEventPhase("a")

Spec == Init /\ [][Next]_vars

\* The same, over rows whose date columns may hold strings that do not parse.
InitMalformed ==
  /\ eventRows \in {{r} : r \in RowsOver(DateColumns, {""})}
  /\ tz = 0
  /\ clock \in ClockTimes
  /\ Idle
  /\ ApiIdle

SpecMalformed == InitMalformed /\ [][Next]_vars

(***************************************************************************)
(* Concurrent requests: each caller awaits its own fetch of the row, then  *)
(* runs the rest of getEventPhase and its own few lines without yielding.  *)
(* Meanwhile the clock ticks and the table is edited.                      *)
(***************************************************************************)
\* Two rows around the first instant: nominations opening then, and the
\* ceremony held then.
OpeningRow ==
  EventRow(Timestamp(MilestoneDays[1] * MsPerDay), Timestamp(MilestoneDays[2] * MsPerDay),
           NullColumn, NullColumn, NullColumn, NullColumn, "", "", 2025)

CeremonyRow ==
  EventRow(NullColumn, NullColumn, NullColumn, NullColumn, NullColumn,
           Timestamp(MilestoneDays[1] * MsPerDay), "", "", 2025)

\* The table holds no active row, one of the two, or both.
ConcTables == SUBSET {OpeningRow, CeremonyRow}

ConcStart == MilestoneDays[1] * MsPerDay - 1

ConcEnd == MilestoneDays[1] * MsPerDay + 1

\* (the row read from the table again instead of the caller's own constant)
LiveRow(i) == getActiveEventDetails(eventRows)

\* const eventDetails: the row this caller's await resolved to.
HeldRow(i) == eventDetails[i]

\* A request calls one of the exported functions.
Call(i, c) ==
  /\ pc[i] = "idle"
  /\ pc' = [pc EXCEPT ![i] = "fetching"]
  /\ call' = [call EXCEPT ![i] = c]
  /\ UNCHANGED <<eventRows, tz, clock, eventDetails, now, currentTime, eventPhase, returned, apiVars>>

\* await getActiveEventDetails() resolves with what the table holds then.
Fetch(i) ==
  /\ pc[i] = "fetching"
  /\ pc' = [pc EXCEPT ![i] = "fetched"]
  /\ eventDetails' = [eventDetails EXCEPT ![i] = getActiveEventDetails(eventRows)]
  /\ UNCHANGED <<eventRows, tz, clock, call, now, currentTime, eventPhase, returned, apiVars>>

\* The rest of getEventPhase and of the function that called it.
Resolve(i) ==
  /\ pc[i] = "fetched"
  /\ \E lag \in 0..MaxClockLag :
       /\ clock + lag <= ConcEnd
       /\ Compute(i, HeldRow(i), lag)
  /\ UNCHANGED <<eventRows, tz, call, eventDetails, apiVars>>

\* The request is answered and its caller is gone.
Return(i) ==
  /\ pc[i] = "done"
  /\ pc' = [pc EXCEPT ![i] = "idle"]
  /\ call' = [call EXCEPT ![i] = PhaseCall]
  /\ eventDetails' = [eventDetails EXCEPT ![i] = {}]
  /\ now' = [now EXCEPT ![i] = 0]
  /\ currentTime' = [currentTime EXCEPT ![i] = 0]
  /\ eventPhase' = [eventPhase EXCEPT ![i] = Fallback]
  /\ returned' = [returned EXCEPT ![i] = NoReturn]
  /\ UNCHANGED <<eventRows, tz, clock, apiVars>>

Tick ==
  /\ clock < ConcEnd
  /\ clock' = clock + 1
  /\ UNCHANGED <<eventRows, tz, pc, call, eventDetails, now, currentTime, eventPhase, returned, apiVars>>

\* An editor changes which rows of event_details are active.
SaveEventDetails(rows) ==
  /\ rows # eventRows
  /\ eventRows' = rows
  /\ UNCHANGED <<tz, clock, pc, call, eventDetails, now, currentTime, eventPhase, returned, apiVars>>

InitConc ==
  /\ eventRows = {OpeningRow}
  /\ tz = 0
  /\ clock = ConcStart
  /\ Idle
  /\ ApiIdle

NextConc ==
  \/ \E i \in Callers, c \in Calls : Call(i, c)
  \/ \E i \in Callers : Fetch(i)
  \/ \E i \in Callers : Resolve(i)
  \/ \E i \in Callers : Return(i)
  \/ Tick
  \/ \E rows \in ConcTables : SaveEventDetails(rows)

SpecConc == InitConc /\ [][NextConc]_vars

(***************************************************************************)
(* A request to any of the exported functions: the row now carries its     *)
(* portal addresses and its year, and its milestones fall on the first two *)
(* instants.                                                               *)
(***************************************************************************)
HelperYears == {2025, 2026}

HelperColumns ==
  {NullColumn, Timestamp(MilestoneDays[1] * MsPerDay), Timestamp(MilestoneDays[2] * MsPerDay)}

HelperRows ==
  {[r EXCEPT !.event_year = yr] : r \in RowsOver(HelperColumns, PortalUrls), yr \in HelperYears}

\* The first clock read: a millisecond before the first instant, at it, and
\* an hour before the second.
HelperClocks ==
  {MilestoneDays[1] * MsPerDay - 1, MilestoneDays[1] * MsPerDay,
   MilestoneDays[2] * MsPerDay - MsPerHour}

\* One whole call of exported function c with nothing else running: its
\* await of getEventPhase, then its own few lines on the EventPhase.
CallExported(i, c) ==
  /\ pc[i] = "idle"
  /\ call' = [call EXCEPT ![i] = c]
  /\ eventDetails' = [eventDetails EXCEPT ![i] = getActiveEventDetails(eventRows)]
  /\ \E lag \in 0..MaxClockLag :
       /\ clock' = clock + lag
       /\ now' = [now EXCEPT ![i] = clock]
       /\ currentTime' = [currentTime EXCEPT ![i] = clock + lag]
       /\ eventPhase' = [eventPhase EXCEPT ![i] =
                           ResolvePhase(getActiveEventDetails(eventRows), clock, clock + lag, tz)]
       /\ returned' = [returned EXCEPT ![i] =
                         Returned(c, ResolvePhase(getActiveEventDetails(eventRows),
                                                  clock, clock + lag, tz))]
  /\ pc' = [pc EXCEPT ![i] = "done"]
  /\ UNCHANGED <<eventRows, tz, apiVars>>

InitHelpers ==
  /\ eventRows \in {{}} \cup {{r} : r \in HelperRows}
  /\ tz = 0
  /\ clock \in HelperClocks
  /\ Idle
  /\ ApiIdle

NextHelpers == \E c \in Calls : CallExported("a", c)

SpecHelpers == InitHelpers /\ [][NextHelpers]_vars

(***************************************************************************)
(* Requests one after another while time passes over a complete row: its   *)
(* six milestones a day apart, the clock moving forward past each of them. *)
(***************************************************************************)
ProgressRow ==
  EventRow(Timestamp(1 * MsPerDay), Timestamp(2 * MsPerDay), Timestamp(3 * MsPerDay),
           Timestamp(4 * MsPerDay), Timestamp(5 * MsPerDay), Timestamp(6 * MsPerDay),
           "", "", 2025)

\* The requests arrive a millisecond before each milestone, at it, and a
\* millisecond after it.
ProgressTimes == {k * MsPerDay + o : k \in 1..6, o \in {0 - 1, 0, 1}}

\* Time passes.
Advance(t) ==
  /\ t > clock
  /\ clock' = t
  /\ UNCHANGED <<eventRows, tz, pc, call, eventDetails, now, currentTime, eventPhase, returned, apiVars>>

InitProgress ==
  /\ eventRows = {ProgressRow}
  /\ tz = 0
  /\ clock = MsPerDay - 1
  /\ Idle
  /\ ApiIdle

NextProgress ==
  \/ \E t \in ProgressTimes : Advance(t)
  \/ \E i \in Callers : clock \in ProgressTimes /\ GetEventPhase(i)
  \/ \E i \in Callers : Return(i)

SpecProgress == InitProgress /\ [][NextProgress]_vars

(***************************************************************************)
(* The articles API: the handlers                                          *)
(***************************************************************************)
ArticleIds == {1, 2}

\* How the statement on the articles table ends: it succeeds, it violates
\* the unique slug (code 23505), or it fails otherwise.
DbOutcomes == {"ok", "23505", "error"}

\* The handler of client r answers.
Respond(r, method, auth, body, query, updateData, status, ops, data) ==
  requests' = [requests EXCEPT ![r] =
                 Request("done", method, auth, body, query, updateData, status, ops,
                         data, Cardinality(data))]

\* GET /api/admin/articles
AdminGET(r, auth, query, db) ==
  /\ requests[r].pc # "read"
  /\ IF AuthFailure(auth) # 0
     THEN Respond(r, "GET", auth, NoBody, query, NoUpdate, AuthFailure(auth), {}, {})
     ELSE IF db # "ok"
     THEN Respond(r, "GET", auth, NoBody, query, NoUpdate, 500,
                  {Op("select", "articles")}, {})
     ELSE Respond(r, "GET", auth, NoBody, query, NoUpdate, 200,
                  {Op("select", "articles")},
                  {a \in articles :
                     /\ query.type # "" => a.article_type = query.type
                     /\ query.status = "published" => a.is_published
                     /\ query.status = "draft" => ~a.is_published
                     /\ query.search # <<>> => ILike(a.title, query.search)})
  /\ UNCHANGED <<dateVars, tableVars, brevo>>

\* POST /api/admin/articles; id is the uuid the table gives the new row.
AdminPOST(r, auth, body, db, id) ==
  /\ requests[r].pc # "read"
  /\ id \in ArticleIds /\ \A a \in articles : a.id # id
  /\ IF AuthFailure(auth) # 0
     THEN /\ Respond(r, "POST", auth, body, NoQuery, NoUpdate, AuthFailure(auth), {}, {})
          /\ UNCHANGED tableVars
     ELSE IF body.title = <<>> \/ body.content = "" \/ body.article_type = ""
     THEN /\ Respond(r, "POST", auth, body, NoQuery, NoUpdate, 400, {}, {})
          /\ UNCHANGED tableVars
     ELSE IF db = "23505"
     THEN /\ Respond(r, "POST", auth, body, NoQuery, NoUpdate, 409,
                     {Op("insert", "articles")}, {})
          /\ UNCHANGED tableVars
     ELSE IF db = "error" \/ body.article_type \notin ArticleTypes
     THEN /\ Respond(r, "POST", auth, body, NoQuery, NoUpdate, 500,
                     {Op("insert", "articles")}, {})
          /\ UNCHANGED tableVars
     ELSE LET data == Article(id, body.title, body.article_type,
                              FlagSet(body.is_published), PostPublishedAt(body, clock))
              rows == articles \cup {data}
          IN  /\ articles' = rows
              /\ article_finalists' = AddLinks(article_finalists, rows, id,
                                               body.finalist_ids, Finalists)
              /\ article_judges' = AddLinks(article_judges, rows, id, body.judge_ids, Judges)
              /\ article_sponsors' = AddLinks(article_sponsors, rows, id,
                                              body.sponsor_ids, Sponsors)
              /\ Respond(r, "POST", auth, body, NoQuery, NoUpdate, 201,
                         {Op("insert", "articles")}
                           \cup LinkOps(body.finalist_ids, "article_finalists", FALSE)
                           \cup LinkOps(body.judge_ids, "article_judges", FALSE)
                           \cup LinkOps(body.sponsor_ids, "article_sponsors", FALSE),
                         {data})
  /\ UNCHANGED <<dateVars, brevo>>

\* PUT from its update on: .update(updateData).eq('id', id).select()
\* .single(), then the junction tables, then the response.
PutUpdate(r, auth, body, updateData, db) ==
  LET readOps == IF ReadsExisting(body) THEN {Op("select", "articles")} ELSE {}
  IN  IF db = "23505"
      THEN /\ Respond(r, "PUT", auth, body, NoQuery, updateData, 409,
                      readOps \cup {Op("update", "articles")}, {})
           /\ UNCHANGED tableVars
      ELSE IF db = "error" \/ ~\E a \in articles : a.id = body.id
      THEN /\ Respond(r, "PUT", auth, body, NoQuery, updateData, 500,
                      readOps \cup {Op("update", "articles")}, {})
           /\ UNCHANGED tableVars
      ELSE /\ articles' = ApplyUpdate(articles, body.id, updateData)
           /\ article_finalists' = ReplaceLinks(article_finalists, articles, body.id,
                                                body.finalist_ids, Finalists)
           /\ article_judges' = ReplaceLinks(article_judges, articles, body.id,
                                             body.judge_ids, Judges)
           /\ article_sponsors' = ReplaceLinks(article_sponsors, articles, body.id,
                                               body.sponsor_ids, Sponsors)
           /\ Respond(r, "PUT", auth, body, NoQuery, updateData, 200,
                      readOps \cup {Op("update", "articles")}
                        \cup LinkOps(body.finalist_ids, "article_finalists", TRUE)
                        \cup LinkOps(body.judge_ids, "article_judges", TRUE)
                        \cup LinkOps(body.sponsor_ids, "article_sponsors", TRUE),
                      {a \in ApplyUpdate(articles, body.id, updateData) : a.id = body.id})

\* PUT /api/admin/articles, the whole handler with nothing else running.
AdminPUT(r, auth, body, db) ==
  /\ requests[r].pc # "read"
  /\ IF AuthFailure(auth) # 0
     THEN /\ Respond(r, "PUT", auth, body, NoQuery, NoUpdate, AuthFailure(auth), {}, {})
          /\ UNCHANGED tableVars
     ELSE IF body.id = 0
     THEN /\ Respond(r, "PUT", auth, body, NoQuery, NoUpdate, 400, {}, {})
          /\ UNCHANGED tableVars
     ELSE PutUpdate(r, auth, body,
                    PutUpdateData(body, ExistingPublishedAt(articles, body.id), clock), db)
  /\ UNCHANGED <<dateVars, brevo>>

\* DELETE /api/admin/articles; the junction rows go with the article
\* (ON DELETE CASCADE).
AdminDELETE(r, auth, body, db) ==
  /\ requests[r].pc # "read"
  /\ IF AuthFailure(auth) # 0
     THEN /\ Respond(r, "DELETE", auth, body, NoQuery, NoUpdate, AuthFailure(auth), {}, {})
          /\ UNCHANGED tableVars
     ELSE IF body.id = 0
     THEN /\ Respond(r, "DELETE", auth, body, NoQuery, NoUpdate, 400, {}, {})
          /\ UNCHANGED tableVars
     ELSE IF db # "ok"
     THEN /\ Respond(r, "DELETE", auth, body, NoQuery, NoUpdate, 500,
                     {Op("delete", "articles")}, {})
          /\ UNCHANGED tableVars
     ELSE /\ articles' = {a \in articles : a.id # body.id}
          /\ article_finalists' = article_finalists \ LinksOf(article_finalists, body.id)
          /\ article_judges' = article_judges \ LinksOf(article_judges, body.id)
          /\ article_sponsors' = article_sponsors \ LinksOf(article_sponsors, body.id)
          /\ Respond(r, "DELETE", auth, body, NoQuery, NoUpdate, 200,
                     {Op("delete", "articles")}, {})
  /\ UNCHANGED <<dateVars, brevo>>

\* The clock of the server moves on, up to the last of ApiTimes.
ApiTimes == {1, 2}

ApiTick ==
  /\ clock + 1 \in ApiTimes
  /\ clock' = clock + 1
  /\ UNCHANGED <<eventRows, tz, pc, call, eventDetails, now, currentTime, eventPhase,
                 returned, apiVars>>

\* The date checker at rest, the tables empty, no request made.
InitApi ==
  /\ eventRows = {}
  /\ tz = 0
  /\ clock = 1
  /\ Idle
  /\ ApiIdle

(***************************************************************************)
(* Administration: requests one after another, from an empty table         *)
(***************************************************************************)
XRTitle == <<"X", "R">>

\* A time an editor may give as published_at.
GivenTime == 5

\* Bodies of POST: complete ones, published or not, with or without a
\* published_at; and ones with a required field missing or with an
\* article type the table refuses.
PostBodies ==
  {Body(0, XRTitle, "text", "case-study", ip, pa, NoIds, NoIds, NoIds) :
     ip \in {NoFlag, Flag(TRUE), Flag(FALSE)},
     pa \in {NoTime, NullTime, TimeField(GivenTime)}}
    \cup {Body(0, f[1], f[2], f[3], Flag(TRUE), NoTime, NoIds, NoIds, NoIds) :
            f \in {<<<<>>, "text", "case-study">>, <<XRTitle, "", "case-study">>,
                   <<XRTitle, "text", "">>, <<XRTitle, "text", "blog">>}}

\* Bodies of PUT: with or without an id, is_published and published_at.
PutBodies ==
  {Body(id, <<>>, "", "", ip, pa, NoIds, NoIds, NoIds) :
     id \in ArticleIds,
     ip \in {NoFlag, Flag(TRUE), Flag(FALSE)},
     pa \in {NoTime, NullTime, TimeField(GivenTime)}}
    \cup {Body(0, <<>>, "", "", Flag(TRUE), NoTime, NoIds, NoIds, NoIds)}

DeleteBodies ==
  {Body(id, <<>>, "", "", NoFlag, NoTime, NoIds, NoIds, NoIds) : id \in {0} \cup ArticleIds}

AdminQueries ==
  {Query(type, status, search, 0, "", "") :
     type \in {"", "case-study"}, status \in {"", "published", "draft"},
     search \in {<<>>, <<"x">>}}

\* What a request meets besides its body: requireApiAuth lets it through
\* and the statement succeeds or fails, or requireApiAuth stops it.
Meets ==
  {<<Authenticated, db>> : db \in DbOutcomes}
    \cup {<<auth, "ok">> : auth \in AuthResults \ {Authenticated}}

\* Every body is tried where nothing fails; where something fails, one
\* body of each handler that publishes article 1.
Smooth(m) == m = <<Authenticated, "ok">>

Probe(body) ==
  /\ body.id \in {0, 1}
  /\ body.is_published = Flag(TRUE) /\ body.published_at = NoTime
  /\ body.title = <<>> \/ body.article_type = "case-study"

InitAdmin == InitApi

NextAdmin ==
  \/ \E m \in Meets, query \in AdminQueries :
       /\ m[2] # "23505"
       /\ Smooth(m) \/ query = NoQuery
       /\ AdminGET("p", m[1], query, m[2])
  \/ \E m \in Meets, body \in PostBodies, id \in ArticleIds :
       /\ Smooth(m) \/ Probe(body)
       /\ AdminPOST("p", m[1], body, m[2], id)
  \/ \E m \in Meets, body \in PutBodies :
       /\ Smooth(m) \/ Probe(body)
       /\ AdminPUT("p", m[1], body, m[2])
  \/ \E m \in Meets, body \in DeleteBodies :
       /\ m[2] # "23505"
       /\ Smooth(m) \/ body.id = 1
       /\ AdminDELETE("p", m[1], body, m[2])
  \/ ApiTick

SpecAdmin == InitAdmin /\ [][NextAdmin]_vars

(***************************************************************************)
(* Relationships: articles linked to finalists, judges and sponsors        *)
(***************************************************************************)
\* The lists of ids an editor may send: none, an empty one, one or two
\* finalists, the same finalist twice, a finalist that does not exist.
FinalistFields == {NoIds, Ids(<<>>), Ids(<<1>>), Ids(<<1, 2>>), Ids(<<1, 1>>), Ids(<<3>>)}

JudgeFields == {NoIds, Ids(<<2>>)}

SponsorFields == {NoIds, Ids(<<>>)}

RelationPutBodies ==
  {Body(id, <<>>, "", "", NoFlag, NoTime, f, j, s) :
     id \in ArticleIds, f \in FinalistFields, j \in JudgeFields, s \in SponsorFields}

RelationPostBodies ==
  {Body(0, XRTitle, "text", "case-study", NoFlag, NoTime, f, j, NoIds) :
     f \in {NoIds, Ids(<<2>>)}, j \in {NoIds, Ids(<<1>>)}}

\* Article 1 exists and is linked to finalist 1 and sponsor 1.
InitRelations ==
  /\ eventRows = {}
  /\ tz = 0
  /\ clock = 1
  /\ Idle
  /\ articles = {Article(1, XRTitle, "case-study", FALSE, 0)}
  /\ article_finalists = {Link(1, 1)}
  /\ article_judges = {}
  /\ article_sponsors = {Link(1, 1)}
  /\ requests = [r \in Clients |-> NoRequest]
  /\ brevo = NoMail

NextRelations ==
  \/ \E body \in RelationPostBodies, id \in ArticleIds :
       AdminPOST("p", Authenticated, body, "ok", id)
  \/ \E m \in Meets, body \in RelationPutBodies :
       /\ Smooth(m) \/ (body.id = 1 /\ body.finalist_ids = Ids(<<1, 2>>))
       /\ AdminPUT("p", m[1], body, m[2])
  \/ \E body \in DeleteBodies :
       body.id # 0 /\ AdminDELETE("p", Authenticated, body, "ok")

SpecRelations == InitRelations /\ [][NextRelations]_vars

(***************************************************************************)
(* Publishing: PUT requests of two clients, interleaved                    *)
(***************************************************************************)
\* PUT up to the answer to its read of the existing row: the handler holds
\* updateData, with published_at from the clock when the row it read has
\* none, and has yet to send its update.
PutBegin(r, body) ==
  /\ requests[r].pc # "read"
  /\ body.id # 0 /\ ReadsExisting(body)
  /\ requests' = [requests EXCEPT ![r] =
                    Request("read", "PUT", Authenticated, body, NoQuery,
                            PutUpdateData(body, ExistingPublishedAt(articles, body.id), clock),
                            0, {Op("select", "articles")}, {}, 0)]
  /\ UNCHANGED <<dateVars, tableVars, brevo>>

\* PUT from its update on, with the updateData it holds.
PutFinish(r, db) ==
  /\ requests[r].pc = "read"
  /\ PutUpdate(r, requests[r].auth, requests[r].body, requests[r].updateData, db)
  /\ UNCHANGED <<dateVars, brevo>>

\* Bodies that carry no published_at: publish, unpublish, or neither.
PublishBodies ==
  {Body(id, <<>>, "", "", ip, NoTime, NoIds, NoIds, NoIds) :
     id \in ArticleIds, ip \in {NoFlag, Flag(TRUE), Flag(FALSE)}}

\* Article 1 is a draft that was never published.
InitPublish ==
  /\ eventRows = {}
  /\ tz = 0
  /\ clock = 1
  /\ Idle
  /\ articles = {Article(1, XRTitle, "case-study", FALSE, 0)}
  /\ article_finalists = {}
  /\ article_judges = {}
  /\ article_sponsors = {}
  /\ requests = [r \in Clients |-> NoRequest]
  /\ brevo = NoMail

NextPublish ==
  \/ \E r \in Clients, body \in PublishBodies : PutBegin(r, body)
  \/ \E r \in Clients, db \in DbOutcomes : PutFinish(r, db)
  \/ \E r \in Clients, body \in PublishBodies :
       ~ReadsExisting(body) /\ AdminPUT(r, Authenticated, body, "ok")
  \/ ApiTick

SpecPublish == InitPublish /\ [][NextPublish]_vars

(***************************************************************************)
(* The public listing: GET /api/articles                                   *)
(***************************************************************************)
PublicGet == "GET /api/articles"

\* The session createSecureSupabaseClient(cookies) gives the query: that
\* of a visitor or that of a signed-in user.
Session(role) == AuthResult(role = "authenticated", 0, TRUE)

\* GET /api/articles.  s is the order in which the database returns the
\* matching rows.  A range that is not one (a limit or offset that is not
\* a number or is negative) is left to the database: it answers with an
\* error or with some rows, sub, of those that match.
PublicGET(r, role, query, db) ==
  LET limit == MathMin(ParseInt(ParamOr(query.limit, DefaultLimit)), MaxLimit)
      offset == ParseInt(ParamOr(query.offset, DefaultOffset))
      byJudge == query.judge # 0
      matching == IF byJudge THEN ByJudge(articles, article_judges, role, query.judge)
                  ELSE Listed(articles, role, query)
      ranged == ~limit.nan /\ ~offset.nan /\ limit.n >= 0 /\ offset.n >= 0
      table == IF byJudge THEN "article_judges" ELSE "articles"
  IN  /\ requests[r].pc # "read"
      /\ \E s \in Orders(matching),
            sub \in (IF byJudge \/ ranged THEN {{}} ELSE SUBSET matching) :
           LET data == IF byJudge THEN matching
                       ELSE IF ranged THEN Range(s, offset.n, offset.n + limit.n - 1)
                       ELSE sub
           IN  requests' = [requests EXCEPT ![r] =
                  IF db # "ok"
                  THEN Request("done", PublicGet, Session(role), NoBody, query, NoUpdate,
                               500, {Op("select", table)}, {}, 0)
                  ELSE Request("done", PublicGet, Session(role), NoBody, query, NoUpdate,
                               200, {Op("select", table)}, data, Cardinality(matching))]
      /\ UNCHANGED <<dateVars, tableVars, brevo>>

\* The articles the table may hold: two published ones and a draft.
Catalogue ==
  {Article(1, XRTitle, "case-study", TRUE, 2),
   Article(2, <<"X", "D">>, "case-study", FALSE, 0),
   Article(3, <<"D">>, "expert-insight", TRUE, 1)}

PublicQueries ==
  {Query(type, "", search, judge, limit, offset) :
     type \in {"", "case-study", "blog"},
     search \in {<<>>, <<"x">>, <<"d">>},
     judge \in {0, 1, 2},
     limit \in {"", "0", "1", "250", "-1", "abc"},
     offset \in {"", "1", "abc"}}

\* Some of the catalogue is in the table, each article linked to judge 1
\* or not.
InitPublic ==
  /\ eventRows = {}
  /\ tz = 0
  /\ clock = 1
  /\ Idle
  /\ articles \in SUBSET Catalogue
  /\ article_finalists = {}
  /\ article_judges \in SUBSET {Link(a.id, 1) : a \in Catalogue}
  /\ \A l \in article_judges : \E a \in articles : a.id = l.article_id
  /\ article_sponsors = {}
  /\ requests = [r \in Clients |-> NoRequest]
  /\ brevo = NoMail

\* One request of a client; the tables stay as they are.
NextPublic ==
  \E role \in Roles, query \in PublicQueries, db \in {"ok", "error"} :
    /\ requests["p"].pc = "idle"
    /\ PublicGET("p", role, query, db)

SpecPublic == InitPublic /\ [][NextPublic]_vars

(***************************************************************************)
(* The mailing function: addContactToList                                  *)
(***************************************************************************)
\* addContactToList(contact, listId) up to its first fetch; key is whether
\* Deno.env.get('BREVO_API_KEY') gives a key.
AddContactToList(contact, listId, key) ==
  /\ brevo.pc \in {"idle", "resolved", "rejected"}
  /\ brevo' = IF ~key
              THEN Mail("rejected", key, contact, listId, <<>>, <<>>, FALSE, GENERAL_ERROR)
              ELSE Mail("first", key, contact, listId,
                        <<buildPayload(contact, listId, TRUE)>>, <<>>, FALSE, "")
  /\ UNCHANGED <<dateVars, tableVars, requests>>

\* The response to the first request arrives.
FirstResponse(status) ==
  /\ brevo.pc = "first"
  /\ brevo' = IF Rejected(status) /\ brevo.contact.phone # ""
              THEN [brevo EXCEPT !.pc = "second",
                                 !.received = Append(@, status),
                                 !.sent = Append(@, buildPayload(brevo.contact, brevo.listId,
                                                                 FALSE))]
              ELSE IF Rejected(status)
              THEN [brevo EXCEPT !.pc = "rejected", !.received = Append(@, status),
                                 !.error = GENERAL_ERROR]
              ELSE [brevo EXCEPT !.pc = "resolved", !.received = Append(@, status)]
  /\ UNCHANGED <<dateVars, tableVars, requests>>

\* The response to the second request arrives.
SecondResponse(status) ==
  /\ brevo.pc = "second"
  /\ brevo' = IF Rejected(status)
              THEN [brevo EXCEPT !.pc = "rejected", !.received = Append(@, status),
                                 !.error = GENERAL_ERROR]
              ELSE [brevo EXCEPT !.pc = "resolved", !.received = Append(@, status)]
  /\ UNCHANGED <<dateVars, tableVars, requests>>

\* fetch throws (the network fails): the catch clause throws the general
\* error.
FetchThrows ==
  /\ brevo.pc \in {"first", "second"}
  /\ brevo' = [brevo EXCEPT !.pc = "rejected", !.threw = TRUE, !.error = GENERAL_ERROR]
  /\ UNCHANGED <<dateVars, tableVars, requests>>

Contacts ==
  {Contact("a@example.org", firstName, lastName, phone) :
     firstName \in {"", "Ann"}, lastName \in {"", "Lee"}, phone \in {"", "+15550100"}}

ListIds == {DOWNLOAD_ENTRY_KIT, REGISTER_INTEREST_AWARDS_OPTIN}

\* The statuses the mailing API answers with.
Statuses == {200, 201, 204, 400, 500}

InitBrevo == InitApi

NextBrevo ==
  \/ \E contact \in Contacts, listId \in ListIds, key \in BOOLEAN :
       AddContactToList(contact, listId, key)
  \/ \E status \in Statuses : FirstResponse(status)
  \/ \E status \in Statuses : SecondResponse(status)
  \/ FetchThrows

SpecBrevo == InitBrevo /\ [][NextBrevo]_vars

(***************************************************************************)
(* Properties.  In each, a resolution is a caller i that is "done": it     *)
(* holds the row it fetched (eventDetails[i]), its two clock reads and the *)
(* EventPhase it got.  The instant the phase chain compares with the       *)
(* milestones is currentTime[i]; today is taken from now[i].               *)
(***************************************************************************)
Done(i) == pc[i] = "done"

HasRow(i) == eventDetails[i] # {}

Row(i) == CHOOSE r \in eventDetails[i] : TRUE

DateNames == {"nominations_open", "nominations_close", "finalists_announced",
              "judging_period_start", "judging_period_end", "awards_ceremony"}

\* A milestone is present when its column holds a timestamp.
Present(r, name) == r[name].iso

At(r, name) == r[name].ms

WellFormed(r) == \A name \in DateNames : r[name].null \/ r[name].iso

\* C1: getEventPhase is total on well-formed input: with no active row, or a
\* row whose six milestones are each present or absent in any order, and at
\* every instant, it returns (never throws) and the phase it returns is one
\* of the six tags.
C1_Totality ==
  \A i \in Callers :
    (Done(i) /\ (HasRow(i) => WellFormed(Row(i))))
      => (~eventPhase[i].threw /\ eventPhase[i].phase \in Phases)

\* C1 witness: a resolution of a sparse, out-of-order row (ceremony before
\* the end of judging, nominations never opened) has returned.
C1_Witness ==
  /\ Done("a") /\ HasRow("a")
  /\ ~Present(Row("a"), "nominations_open") /\ ~Present(Row("a"), "judging_period_start")
  /\ Present(Row("a"), "judging_period_end") /\ Present(Row("a"), "awards_ceremony")
  /\ At(Row("a"), "awards_ceremony") < At(Row("a"), "judging_period_end")
  /\ eventPhase["a"].phase = "post-ceremony"

\* The phase table of the specification, row by row, at instant t.
TableRows(r, t) ==
  << [holds |-> Present(r, "nominations_open") /\ t < At(r, "nominations_open"),
      phase |-> "pre-nominations", target |-> "Nominations open"],
     [holds |-> /\ Present(r, "nominations_open") /\ Present(r, "nominations_close")
                /\ At(r, "nominations_open") <= t /\ t <= At(r, "nominations_close"),
      phase |-> "nominations-open", target |-> "Nominations close"],
     [holds |-> /\ Present(r, "nominations_close") /\ Present(r, "finalists_announced")
                /\ At(r, "nominations_close") < t /\ t < At(r, "finalists_announced"),
      phase |-> "nominations-closed", target |-> "Finalists announced"],
     [holds |-> /\ Present(r, "finalists_announced") /\ Present(r, "judging_period_start")
                /\ At(r, "finalists_announced") <= t /\ t < At(r, "judging_period_start"),
      phase |-> "finalists-announced", target |-> "Judging begins"],
     [holds |-> /\ Present(r, "judging_period_start") /\ Present(r, "judging_period_end")
                /\ At(r, "judging_period_start") <= t /\ t <= At(r, "judging_period_end"),
      phase |-> "judging-period", target |-> "Judging ends"],
     [holds |-> /\ Present(r, "judging_period_end") /\ Present(r, "awards_ceremony")
                /\ At(r, "judging_period_end") < t /\ t < At(r, "awards_ceremony"),
      phase |-> "finalists-announced", target |-> "Awards ceremony"],
     [holds |-> Present(r, "awards_ceremony") /\ t > At(r, "awards_ceremony"),
      phase |-> "post-ceremony", target |-> "Event completed"] >>

FirstHolding(rows) ==
  LET holding == {k \in 1..Len(rows) : rows[k].holds}
  IN  IF holding = {} THEN 0 ELSE CHOOSE k \in holding : \A j \in holding : k <= j

\* C2: the phase returned is that of the first row of the table whose
\* condition holds (the sixth row naming the ceremony as the next milestone),
\* and pre-nominations with the generic copy when no row holds.
C2_FirstMatchWins ==
  \A i \in Callers :
    (Done(i) /\ HasRow(i) /\ WellFormed(Row(i))) =>
      LET rows == TableRows(Row(i), currentTime[i])
          k    == FirstHolding(rows)
      IN  IF k = 0
          THEN eventPhase[i] = Fallback
          ELSE /\ eventPhase[i].phase = rows[k].phase
               /\ eventPhase[i].nextMilestone.label = rows[k].target

\* C2 witness: rows 1 and 5 both hold (nominations open only after judging
\* has begun) and the first, pre-nominations, is returned.
C2_Witness ==
  /\ Done("a") /\ HasRow("a")
  /\ TableRows(Row("a"), currentTime["a"])[1].holds
  /\ TableRows(Row("a"), currentTime["a"])[5].holds
  /\ eventPhase["a"].phase = "pre-nominations"

\* The row r with every malformed date column emptied.
Emptied(r) ==
  [name \in DOMAIN r |->
     IF name \in DateNames /\ ~r[name].null /\ ~r[name].iso THEN NullColumn ELSE r[name]]

\* C3: a row with one or more malformed date columns resolves, without
\* throwing, to the phase, daysUntilNext, ctaButton and isUrgent of the same
\* row with those columns absent.
C3_MalformedAsAbsent ==
  \A i \in Callers :
    (Done(i) /\ HasRow(i) /\ ~WellFormed(Row(i))) =>
      LET asAbsent == ResolvePhase({Emptied(Row(i))}, now[i], currentTime[i], tz)
      IN  /\ ~eventPhase[i].threw
          /\ eventPhase[i].phase = asAbsent.phase
          /\ eventPhase[i].daysUntilNext = asAbsent.daysUntilNext
          /\ eventPhase[i].ctaButton = asAbsent.ctaButton
          /\ eventPhase[i].isUrgent = asAbsent.isUrgent

\* C4 as claimed: whenever nominationsOpen is present, resolving at exactly
\* that instant gives nominations-open.
C4_Original ==
  \A i \in Callers :
    (/\ Done(i) /\ HasRow(i) /\ WellFormed(Row(i))
     /\ Present(Row(i), "nominations_open")
     /\ currentTime[i] = At(Row(i), "nominations_open"))
      => eventPhase[i].phase = "nominations-open"

\* C4 amended: whenever nominationsOpen and nominationsClose are both present
\* and nominationsOpen <= nominationsClose, resolving at exactly
\* nominationsOpen gives nominations-open (and so not pre-nominations).
C4_InclusiveLowerBound ==
  \A i \in Callers :
    (/\ Done(i) /\ HasRow(i) /\ WellFormed(Row(i))
     /\ Present(Row(i), "nominations_open") /\ Present(Row(i), "nominations_close")
     /\ At(Row(i), "nominations_open") <= At(Row(i), "nominations_close")
     /\ currentTime[i] = At(Row(i), "nominations_open"))
      => eventPhase[i].phase = "nominations-open"

\* C4 witness: a resolution at the very instant nominations open, the close
\* lying later, has returned.
C4_Witness ==
  /\ Done("a") /\ HasRow("a")
  /\ Present(Row("a"), "nominations_open") /\ Present(Row("a"), "nominations_close")
  /\ At(Row("a"), "nominations_open") < At(Row("a"), "nominations_close")
  /\ currentTime["a"] = At(Row("a"), "nominations_open")
  /\ eventPhase["a"].phase = "nominations-open"

\* No present milestone of r lies after its ceremony.
CeremonyLast(r) ==
  \A name \in DateNames : Present(r, name) => At(r, name) <= At(r, "awards_ceremony")

\* C5 as claimed: with the ceremony present, every resolution after it gives
\* post-ceremony.
C5_Original ==
  \A i \in Callers :
    (/\ Done(i) /\ HasRow(i) /\ WellFormed(Row(i))
     /\ Present(Row(i), "awards_ceremony")
     /\ currentTime[i] > At(Row(i), "awards_ceremony"))
      => eventPhase[i].phase = "post-ceremony"

\* C5 amended: with the ceremony present and no present milestone later than
\* it, every resolution after the ceremony gives post-ceremony, and so does
\* every resolution of the same row at any later instant: once returned,
\* post-ceremony is never left.
C5_PostCeremonyTerminal ==
  \A i \in Callers :
    (/\ Done(i) /\ HasRow(i) /\ WellFormed(Row(i))
     /\ Present(Row(i), "awards_ceremony") /\ CeremonyLast(Row(i))
     /\ currentTime[i] > At(Row(i), "awards_ceremony"))
      => /\ eventPhase[i].phase = "post-ceremony"
         /\ \A t \in ClockTimes, lag \in 0..MaxClockLag :
              t >= currentTime[i] =>
                ResolvePhase(eventDetails[i], t, t + lag, tz).phase = "post-ceremony"

\* C5 witness: a resolution after the ceremony of a row with all six
\* milestones, none later than the ceremony, has returned.
C5_Witness ==
  /\ Done("a") /\ HasRow("a")
  /\ \A name \in DateNames : Present(Row("a"), name)
  /\ CeremonyLast(Row("a"))
  /\ currentTime["a"] > At(Row("a"), "awards_ceremony")
  /\ eventPhase["a"].phase = "post-ceremony"

\* C6: with no active row, every resolution gives pre-nominations, zero days,
\* the Register Interest button and no urgency.
C6_EmptyInput ==
  \A i \in Callers :
    (Done(i) /\ ~HasRow(i)) =>
      /\ ~eventPhase[i].threw
      /\ eventPhase[i].phase = "pre-nominations"
      /\ eventPhase[i].daysUntilNext = 0
      /\ eventPhase[i].ctaButton =
           [text |-> "Register Interest", href |-> Href("/register-interest/"),
            variant |-> "primary"]
      /\ eventPhase[i].isUrgent = FALSE

\* C6 witness: a resolution that found no active row has returned.
C6_Witness == Done("a") /\ ~HasRow("a") /\ eventRows = {}

\* The date column a returned countdown runs to, by the label of its next
\* milestone.
TargetColumn(label) ==
  CASE label = "Nominations open"  -> "nominations_open"
    [] label = "Nominations close" -> "nominations_close"
    [] label = "Judging begins"    -> "judging_period_start"
    [] label = "Judging ends"      -> "judging_period_end"
    [] label = "Awards ceremony"   -> "awards_ceremony"

DayCountLabels == {"Nominations open", "Nominations close", "Judging begins",
                   "Judging ends", "Awards ceremony"}

\* Time t truncated to midnight UTC.
UtcMidnight(t) == (t \div MsPerDay) * MsPerDay

\* C9: in every phase with a countdown target other than nominations-closed,
\* daysUntilNext = ceil(|target - today| / one day), today being now
\* truncated to midnight UTC.
C9_DayCount ==
  \A i \in Callers :
    (/\ Done(i) /\ HasRow(i) /\ WellFormed(Row(i))
     /\ eventPhase[i].nextMilestone.label \in DayCountLabels)
      => LET target == At(Row(i), TargetColumn(eventPhase[i].nextMilestone.label))
             dist   == Abs(target - UtcMidnight(now[i]))
         IN  /\ eventPhase[i].daysUntilNext * MsPerDay >= dist
             /\ (eventPhase[i].daysUntilNext - 1) * MsPerDay < dist

\* The time from the resolution's currentTime to finalistsAnnounced.
Gap(i) == At(Row(i), "finalists_announced") - currentTime[i]

InHours(i, n) ==
  /\ eventPhase[i].statusMessage.message.text = "in"
  /\ eventPhase[i].statusMessage.message.unit \in {"hour", "hours"}
  /\ eventPhase[i].statusMessage.message.n = n

InDays(i, n) ==
  /\ eventPhase[i].statusMessage.message.text = "in"
  /\ eventPhase[i].statusMessage.message.unit \in {"day", "days"}
  /\ eventPhase[i].statusMessage.message.n = n

NominationsClosed(i) ==
  Done(i) /\ HasRow(i) /\ WellFormed(Row(i)) /\ eventPhase[i].phase = "nominations-closed"

\* C10 as claimed: in nominations-closed, a gap under 24 hours is told in
\* hours (N = ceil of the hours) with daysUntilNext 0, a gap of 24 hours or
\* more in days (N = ceil of the days) with daysUntilNext N.
C10_Original ==
  \A i \in Callers :
    NominationsClosed(i) =>
      /\ (0 < Gap(i) /\ Gap(i) < HoursPerDay * MsPerHour)
           => InHours(i, CeilDiv(Gap(i), MsPerHour)) /\ eventPhase[i].daysUntilNext = 0
      /\ Gap(i) >= HoursPerDay * MsPerHour
           => InDays(i, CeilDiv(Gap(i), MsPerDay))
              /\ eventPhase[i].daysUntilNext = CeilDiv(Gap(i), MsPerDay)

\* C10 amended: the switch is on the hours rounded up.  In nominations-closed,
\* a gap of at most 23 hours is told in hours (N = ceil of the hours) with
\* daysUntilNext 0; a gap of more than 23 hours is told in days (N = ceil of
\* the days) with daysUntilNext N.
C10_HourDaySwitch ==
  \A i \in Callers :
    NominationsClosed(i) =>
      /\ (0 < Gap(i) /\ Gap(i) <= (HoursPerDay - 1) * MsPerHour)
           => InHours(i, CeilDiv(Gap(i), MsPerHour)) /\ eventPhase[i].daysUntilNext = 0
      /\ Gap(i) > (HoursPerDay - 1) * MsPerHour
           => InDays(i, CeilDiv(Gap(i), MsPerDay))
              /\ eventPhase[i].daysUntilNext = CeilDiv(Gap(i), MsPerDay)

\* C10 witness: a resolution in nominations-closed one millisecond less than
\* 24 hours before the finalists are announced has returned, told in days.
C10_Witness ==
  /\ NominationsClosed("a")
  /\ Gap("a") = HoursPerDay * MsPerHour - 1
  /\ InDays("a", 1)

\* A second case: 23 hours before, told in hours.
C10_WitnessHours ==
  /\ NominationsClosed("a")
  /\ Gap("a") = (HoursPerDay - 1) * MsPerHour
  /\ InHours("a", HoursPerDay - 1)

\* C7: two resolutions of the identical row at the identical now return the
\* identical EventPhase, field for field.
C7_Determinism ==
  \A i \in Callers, j \in Callers :
    (Done(i) /\ Done(j) /\ eventDetails[i] = eventDetails[j] /\ now[i] = now[j])
      => /\ eventPhase[i].threw = eventPhase[j].threw
         /\ eventPhase[i].phase = eventPhase[j].phase
         /\ eventPhase[i].daysUntilNext = eventPhase[j].daysUntilNext
         /\ eventPhase[i].nextMilestone = eventPhase[j].nextMilestone
         /\ eventPhase[i].ctaButton = eventPhase[j].ctaButton
         /\ eventPhase[i].statusMessage = eventPhase[j].statusMessage
         /\ eventPhase[i].isUrgent = eventPhase[j].isUrgent

\* C8: under every interleaving of the callers, the clock and the editor,
\* what each finished call holds is what getEventPhase alone gives on the
\* row that call fetched and the clock readings that call made, and what it
\* returns is its own function of that EventPhase: nothing of another call,
\* nor of the table as it stands now, enters it.
C8_NoInterference ==
  \A i \in Callers :
    Done(i) =>
      /\ eventPhase[i] = ResolvePhase(eventDetails[i], now[i], currentTime[i], tz)
      /\ returned[i] = Returned(call[i], eventPhase[i])

\* C8 witness: two calls of different functions are both finished, on
\* different rows (the table was edited between their fetches), while the
\* table holds yet another content.
C8_Witness ==
  /\ Done("a") /\ Done("b")
  /\ call["a"].fn = "getCTAButton" /\ call["b"].fn = "getCountdownInfo"
  /\ eventDetails["a"] = {CeremonyRow} /\ eventDetails["b"] = {OpeningRow}
  /\ eventRows = {}
  /\ eventPhase["a"].phase = "post-ceremony" /\ eventPhase["b"].phase = "pre-nominations"

\* A resolution that returned an EventPhase.
Resolved(i) == Done(i) /\ ~eventPhase[i].threw

\* C11: daysUntilNext is a non-negative integer in every EventPhase that
\* getEventPhase returns, whatever the row (its milestones out of order or
\* missing) and whatever the clock.
C11_DaysNonNegative ==
  \A i \in Callers : Resolved(i) => eventPhase[i].daysUntilNext \in Nat

\* C11 witness: a resolution of a sparse, out-of-order row (nominations
\* closing before they open, no finalists date) has returned a countdown
\* of days to a milestone ahead.
C11_Witness ==
  /\ Resolved("a") /\ HasRow("a")
  /\ Present(Row("a"), "nominations_open") /\ Present(Row("a"), "nominations_close")
  /\ At(Row("a"), "nominations_close") < At(Row("a"), "nominations_open")
  /\ ~Present(Row("a"), "finalists_announced")
  /\ eventPhase["a"].phase = "pre-nominations"
  /\ eventPhase["a"].daysUntilNext > 0

\* The milestone a returned countdown runs to.
Target(i) == eventPhase[i].nextMilestone.label

\* The results the seven-day rule is claimed for: pre-nominations,
\* nominations-open, post-ceremony, finalists-announced before the ceremony.
SevenDayClaimed(i) ==
  \/ eventPhase[i].phase \in {"pre-nominations", "nominations-open", "post-ceremony"}
  \/ eventPhase[i].phase = "finalists-announced" /\ Target(i) = "Awards ceremony"

\* The results whose countdown runs to a dated milestone under the rule.
SevenDayCounted(i) ==
  \/ eventPhase[i].phase = "pre-nominations" /\ Target(i) = "Nominations open"
  \/ eventPhase[i].phase = "nominations-open"
  \/ eventPhase[i].phase = "finalists-announced" /\ Target(i) = "Awards ceremony"

\* C12 as claimed: in pre-nominations, nominations-open, post-ceremony and
\* finalists-announced before the ceremony, isUrgent is true exactly when
\* daysUntilNext <= 7.
C12_Original ==
  \A i \in Callers :
    (Resolved(i) /\ SevenDayClaimed(i))
      => (eventPhase[i].isUrgent <=> eventPhase[i].daysUntilNext <= 7)

\* C12: where the countdown runs to the opening of nominations, to their
\* close or (after judging) to the ceremony, isUrgent is true exactly when
\* daysUntilNext <= 7; post-ceremony and the pre-nominations returned when
\* there is no row or no window holds have daysUntilNext 0 and are not
\* urgent.
C12_SevenDayRule ==
  \A i \in Callers :
    Resolved(i) =>
      /\ SevenDayCounted(i)
           => (eventPhase[i].isUrgent <=> eventPhase[i].daysUntilNext <= 7)
      /\ (SevenDayClaimed(i) /\ ~SevenDayCounted(i))
           => (eventPhase[i].daysUntilNext = 0 /\ ~eventPhase[i].isUrgent)

\* C12 witness: nominations close in exactly seven days and the result is
\* urgent.
C12_Witness ==
  /\ Resolved("a") /\ eventPhase["a"].phase = "nominations-open"
  /\ eventPhase["a"].daysUntilNext = 7 /\ eventPhase["a"].isUrgent

\* The other side of the threshold: eight days, not urgent.
C12_WitnessEight ==
  /\ Resolved("a") /\ SevenDayCounted("a")
  /\ eventPhase["a"].daysUntilNext = 8 /\ ~eventPhase["a"].isUrgent

\* And the excepted result: post-ceremony, zero days, not urgent.
C12_WitnessCompleted ==
  /\ Resolved("a") /\ eventPhase["a"].phase = "post-ceremony"
  /\ eventPhase["a"].daysUntilNext = 0 /\ ~eventPhase["a"].isUrgent

\* C13: a result of judging-period, or of finalists-announced while judging
\* has not begun, is never urgent, whatever its daysUntilNext.
C13_NeverUrgent ==
  \A i \in Callers :
    (/\ Resolved(i)
     /\ \/ eventPhase[i].phase = "judging-period"
        \/ eventPhase[i].phase = "finalists-announced" /\ Target(i) = "Judging begins")
      => ~eventPhase[i].isUrgent

\* C13 witness: judging ends within seven days and the result is not urgent.
C13_Witness ==
  /\ Resolved("a") /\ eventPhase["a"].phase = "judging-period"
  /\ eventPhase["a"].daysUntilNext <= 7 /\ ~eventPhase["a"].isUrgent

\* The other window: finalists announced, judging begins within seven days.
C13_WitnessFinalists ==
  /\ Resolved("a") /\ eventPhase["a"].phase = "finalists-announced"
  /\ Target("a") = "Judging begins"
  /\ eventPhase["a"].daysUntilNext <= 7 /\ ~eventPhase["a"].isUrgent

\* C14: in nominations-closed, isUrgent is true exactly when daysUntilNext
\* is at most 1 or the status message counts hours.
C14_HourSensitive ==
  \A i \in Callers :
    (Resolved(i) /\ eventPhase[i].phase = "nominations-closed")
      => (eventPhase[i].isUrgent
            <=> \/ eventPhase[i].daysUntilNext <= 1
                \/ eventPhase[i].statusMessage.message.unit \in {"hour", "hours"})

\* C14 witness: the finalists are announced in one day (told in days) and
\* the result is urgent.
C14_Witness ==
  /\ Resolved("a") /\ eventPhase["a"].phase = "nominations-closed"
  /\ InDays("a", 1) /\ eventPhase["a"].daysUntilNext = 1 /\ eventPhase["a"].isUrgent

\* The other side: several days ahead, not urgent.
C14_WitnessDays ==
  /\ Resolved("a") /\ eventPhase["a"].phase = "nominations-closed"
  /\ eventPhase["a"].daysUntilNext > 1 /\ ~eventPhase["a"].isUrgent

\* A finished call of getCTAButton(context).
CtaCall(i, context) ==
  Resolved(i) /\ call[i] = CallOf("getCTAButton", context)

\* column || fallback, spelt out: the column when it holds an address.
AddressOr(url, fallback) == IF url # "" THEN url ELSE fallback

\* C15: the ctaButton of every EventPhase follows from its phase:
\* pre-nominations gives 'Register Interest' to /register-interest/;
\* nominations-open gives 'Nominate Now' to the row's nomination portal, or
\* the fixed portal when the row has none; nominations-closed,
\* finalists-announced and judging-period give 'Secure Tickets' to the
\* row's tickets portal, or the fixed one; post-ceremony gives 'View
\* Winners' to /winners-and-finalists-{year}/; the variant is always
\* 'primary'.
C15_DefaultCta ==
  \A i \in Callers :
    Resolved(i) =>
      LET b  == eventPhase[i].ctaButton
          ph == eventPhase[i].phase
      IN  /\ b.variant = "primary"
          /\ ph = "pre-nominations"
               => b.text = "Register Interest"
                  /\ b.href = [base |-> "/register-interest/", year |-> 0]
          /\ ph = "nominations-open"
               => b.text = "Nominate Now"
                  /\ b.href = [base |-> AddressOr(Row(i).nomination_portal_url,
                                                  NominationPortalFallback),
                               year |-> 0]
          /\ ph \in {"nominations-closed", "finalists-announced", "judging-period"}
               => b.text = "Secure Tickets"
                  /\ b.href = [base |-> AddressOr(Row(i).tickets_portal_url,
                                                  TicketsPortalFallback),
                               year |-> 0]
          /\ ph = "post-ceremony"
               => b.text = "View Winners"
                  /\ b.href = [base |-> "/winners-and-finalists-",
                               year |-> Row(i).event_year]

\* C15 witness: nominations are open on a row with its own nomination
\* portal, and the button leads there.
C15_Witness ==
  /\ Resolved("a") /\ eventPhase["a"].phase = "nominations-open"
  /\ Row("a").nomination_portal_url # ""
  /\ eventPhase["a"].ctaButton.href.base = Row("a").nomination_portal_url

\* Further cases: the fixed tickets address in judging-period, and the
\* winners of 2026.
C15_WitnessTickets ==
  /\ Resolved("a") /\ eventPhase["a"].phase = "judging-period"
  /\ Row("a").tickets_portal_url = "" /\ Row("a").nomination_portal_url # ""
  /\ eventPhase["a"].ctaButton.href.base = TicketsPortalFallback

C15_WitnessWinners ==
  /\ Resolved("a") /\ eventPhase["a"].phase = "post-ceremony"
  /\ eventPhase["a"].ctaButton.href.year = 2026

\* C16: getCTAButton('hero') while nominations are open returns the text
\* 'Submit Your Nomination' with the href and the variant of the default
\* button.
C16_HeroOverride ==
  \A i \in Callers :
    (CtaCall(i, "hero") /\ eventPhase[i].phase = "nominations-open")
      => /\ returned[i].button.text = "Submit Your Nomination"
         /\ returned[i].button.href = eventPhase[i].ctaButton.href
         /\ returned[i].button.variant = eventPhase[i].ctaButton.variant

\* C16 witness: the hero button of a row with its own nomination portal
\* has been returned while nominations are open.
C16_Witness ==
  /\ CtaCall("a", "hero") /\ eventPhase["a"].phase = "nominations-open"
  /\ Row("a").nomination_portal_url # ""
  /\ returned["a"].button.text = "Submit Your Nomination"

\* C17: getCTAButton('footer') after the ceremony returns exactly 'Register
\* Interest Now' to /register-interest/, variant 'primary', whatever the
\* year of the event and the default button.
C17_FooterOverride ==
  \A i \in Callers :
    (CtaCall(i, "footer") /\ eventPhase[i].phase = "post-ceremony")
      => returned[i].button = [text |-> "Register Interest Now",
                               href |-> [base |-> "/register-interest/", year |-> 0],
                               variant |-> "primary"]

\* C17 witness: the footer button has been returned after the ceremony of
\* 2026, the default button being the winners of that year.
C17_Witness ==
  /\ CtaCall("a", "footer") /\ eventPhase["a"].phase = "post-ceremony"
  /\ Row("a").event_year = 2026
  /\ eventPhase["a"].ctaButton.text = "View Winners"
  /\ returned["a"].button.text = "Register Interest Now"

\* C18: getCTAButton('travel') before the ceremony is over returns the text
\* 'Secure Tickets' with the href of the default button of the phase; after
\* the ceremony it returns the default button unchanged.
C18_TravelOverride ==
  \A i \in Callers :
    CtaCall(i, "travel") =>
      IF eventPhase[i].phase # "post-ceremony"
      THEN /\ returned[i].button.text = "Secure Tickets"
           /\ returned[i].button.href = eventPhase[i].ctaButton.href
      ELSE returned[i].button = eventPhase[i].ctaButton

\* C18 witness: the travel button has been returned while nominations are
\* open: 'Secure Tickets', leading to the nomination portal.
C18_Witness ==
  /\ CtaCall("a", "travel") /\ eventPhase["a"].phase = "nominations-open"
  /\ returned["a"].button.text = "Secure Tickets"
  /\ returned["a"].button.href.base = NominationPortalFallback

\* The other side: after the ceremony, the winners.
C18_WitnessCompleted ==
  /\ CtaCall("a", "travel") /\ eventPhase["a"].phase = "post-ceremony"
  /\ returned["a"].button.text = "View Winners"

\* The (context, phase) pairs with an override.
Overridden(context, phase) ==
  \/ context = "hero" /\ phase = "nominations-open"
  \/ context = "footer" /\ phase = "post-ceremony"
  \/ context = "travel" /\ phase # "post-ceremony"

\* C19: for every context and phase without an override, and so for
\* 'header' in every phase, getCTAButton returns the default button with
\* its text, href and variant unchanged.
C19_PassThrough ==
  \A i \in Callers, context \in Contexts :
    (CtaCall(i, context) /\ ~Overridden(context, eventPhase[i].phase))
      => returned[i].button = eventPhase[i].ctaButton

\* C19 witness: the hero button has been returned before nominations open:
\* the default 'Register Interest'.
C19_Witness ==
  /\ CtaCall("a", "hero") /\ eventPhase["a"].phase = "pre-nominations"
  /\ returned["a"].button.text = "Register Interest"

\* The header in a phase where another context has an override.
C19_WitnessHeader ==
  /\ CtaCall("a", "header") /\ eventPhase["a"].phase = "nominations-open"
  /\ returned["a"].button.text = "Nominate Now"

\* C20: getCountdownInfo returns null exactly when daysUntilNext is 0;
\* otherwise it returns days = daysUntilNext, message = nextMilestone and
\* isUrgent as getEventPhase gave it.
C20_CountdownInfo ==
  \A i \in Callers :
    (Resolved(i) /\ call[i] = CallOf("getCountdownInfo", ""))
      => /\ returned[i].countdown.null <=> eventPhase[i].daysUntilNext = 0
         /\ ~returned[i].countdown.null
              => /\ returned[i].countdown.days = eventPhase[i].daysUntilNext
                 /\ returned[i].countdown.message = eventPhase[i].nextMilestone
                 /\ returned[i].countdown.isUrgent = eventPhase[i].isUrgent

\* C20 witness: a countdown of seven days to the opening of nominations has
\* been returned, urgent.
C20_Witness ==
  /\ Resolved("a") /\ call["a"] = CallOf("getCountdownInfo", "")
  /\ eventPhase["a"].phase = "pre-nominations"
  /\ ~returned["a"].countdown.null
  /\ returned["a"].countdown.days = 7 /\ returned["a"].countdown.isUrgent

\* The null side, with a milestone hours ahead: nominations are closed and
\* the finalists are announced within the hour.
C20_WitnessNull ==
  /\ Resolved("a") /\ call["a"] = CallOf("getCountdownInfo", "")
  /\ eventPhase["a"].phase = "nominations-closed"
  /\ InHours("a", 1)
  /\ returned["a"].countdown.null

\* The six milestones in the order the table lists them.
DateOrder == <<"nominations_open", "nominations_close", "finalists_announced",
               "judging_period_start", "judging_period_end", "awards_ceremony">>

\* The milestones a row holds are strictly increasing in that order.
StrictlyOrdered(r) ==
  \A a \in 1..6, b \in 1..6 :
    (a < b /\ Present(r, DateOrder[a]) /\ Present(r, DateOrder[b]))
      => At(r, DateOrder[a]) < At(r, DateOrder[b])

\* Window w (rows 2 to 6 of the table) runs from milestone w - 1 to
\* milestone w; the resolution of i is in it when it returned the phase and
\* the countdown target of that row.
Windows == 2..6

HasWindow(r, w) == Present(r, DateOrder[w - 1]) /\ Present(r, DateOrder[w])

InWindow(i, w) ==
  /\ eventPhase[i].phase = TableRows(Row(i), currentTime[i])[w].phase
  /\ Target(i) = TableRows(Row(i), currentTime[i])[w].target

\* The windows whose phase is returned at their lower milestone, and at
\* their upper milestone.
LowerInclusive == {2, 4, 5}

UpperInclusive == {2, 5}

\* C21 as claimed: every window is inclusive at its lower milestone and
\* exclusive at its upper milestone.
C21_Original ==
  \A i \in Callers, w \in Windows :
    (/\ Resolved(i) /\ HasRow(i) /\ StrictlyOrdered(Row(i)) /\ HasWindow(Row(i), w))
      => /\ currentTime[i] = At(Row(i), DateOrder[w - 1]) => InWindow(i, w)
         /\ currentTime[i] = At(Row(i), DateOrder[w]) => ~InWindow(i, w)

\* C21: on a row whose milestones are strictly increasing, nominations-open
\* and judging-period are returned at both of their milestones,
\* finalists-announced before judging at its lower milestone and not at its
\* upper one, and nominations-closed and finalists-announced before the
\* ceremony at neither of theirs.
C21_WindowBounds ==
  \A i \in Callers, w \in Windows :
    (/\ Resolved(i) /\ HasRow(i) /\ StrictlyOrdered(Row(i)) /\ HasWindow(Row(i), w))
      => /\ currentTime[i] = At(Row(i), DateOrder[w - 1])
              => (InWindow(i, w) <=> w \in LowerInclusive)
         /\ currentTime[i] = At(Row(i), DateOrder[w])
              => (InWindow(i, w) <=> w \in UpperInclusive)

\* C21 witness: a resolution at the very instant nominations close, on an
\* ordered row, has returned nominations-open.
C21_Witness ==
  /\ Resolved("a") /\ HasRow("a") /\ StrictlyOrdered(Row("a")) /\ HasWindow(Row("a"), 2)
  /\ currentTime["a"] = At(Row("a"), "nominations_close")
  /\ eventPhase["a"].phase = "nominations-open"

\* Further cases: at the instant judging begins the phase is judging-period
\* and no longer finalists-announced; at the instant of the ceremony no
\* window holds.
C21_WitnessJudging ==
  /\ Resolved("a") /\ HasRow("a") /\ StrictlyOrdered(Row("a"))
  /\ HasWindow(Row("a"), 4) /\ HasWindow(Row("a"), 5)
  /\ currentTime["a"] = At(Row("a"), "judging_period_start")
  /\ eventPhase["a"].phase = "judging-period"

C21_WitnessCeremony ==
  /\ Resolved("a") /\ HasRow("a") /\ StrictlyOrdered(Row("a")) /\ HasWindow(Row("a"), 6)
  /\ currentTime["a"] = At(Row("a"), "awards_ceremony")
  /\ eventPhase["a"] = Fallback

\* The place of a result in the order pre-nominations, nominations-open,
\* nominations-closed, finalists-announced, judging-period,
\* finalists-announced (before the ceremony), post-ceremony.
Stage(i) ==
  CASE eventPhase[i].phase = "pre-nominations"    -> 1
    [] eventPhase[i].phase = "nominations-open"   -> 2
    [] eventPhase[i].phase = "nominations-closed" -> 3
    [] eventPhase[i].phase = "finalists-announced" /\ Target(i) = "Judging begins" -> 4
    [] eventPhase[i].phase = "judging-period"     -> 5
    [] eventPhase[i].phase = "finalists-announced" /\ Target(i) = "Awards ceremony" -> 6
    [] eventPhase[i].phase = "post-ceremony"      -> 7

\* C27: on a row with all six milestones present and strictly increasing,
\* of two resolutions the later never returns an earlier phase of the order
\* than the earlier one, and no resolution at or after the opening of
\* nominations returns pre-nominations.
C27_ForwardOnly ==
  \A i \in Callers, j \in Callers :
    (/\ Resolved(i) /\ HasRow(i) /\ StrictlyOrdered(Row(i))
     /\ \A w \in Windows : HasWindow(Row(i), w))
      => /\ (Resolved(j) /\ eventDetails[j] = eventDetails[i]
             /\ currentTime[i] <= currentTime[j])
              => Stage(i) <= Stage(j)
         /\ currentTime[i] >= At(Row(i), "nominations_open")
              => eventPhase[i].phase # "pre-nominations"

\* A request that has been answered.
Answered(r) == requests[r].pc = "done"

\* C23: an admin GET, POST, PUT or DELETE that requireApiAuth reports as
\* not authenticated, or leaves without a database client, is answered
\* with the authentication error status (the status requireApiAuth gave,
\* 401 when only the client is missing) and has performed no operation on
\* the articles table or on a junction table.
C23_AuthRequired ==
  \A r \in Clients :
    (/\ Answered(r) /\ requests[r].method \in {"GET", "POST", "PUT", "DELETE"}
     /\ ~requests[r].auth.authenticated \/ ~requests[r].auth.supabase)
      => /\ requests[r].status = IF ~requests[r].auth.authenticated
                                 THEN requests[r].auth.status ELSE 401
         /\ requests[r].ops = {}
         /\ requests[r].data = {}

\* C23 witness: a DELETE of an article in the table, authenticated but
\* without a client, has been answered with 401 and the article is still
\* there.
C23_Witness ==
  /\ Answered("p") /\ requests["p"].method = "DELETE"
  /\ requests["p"].auth.authenticated /\ ~requests["p"].auth.supabase
  /\ \E a \in articles : a.id = requests["p"].body.id
  /\ requests["p"].status = 401

\* The other handlers, refused with the status requireApiAuth gave.
C23_WitnessRefused ==
  /\ Answered("p") /\ requests["p"].method = "PUT"
  /\ ~requests["p"].auth.authenticated
  /\ \E a \in articles : a.id = requests["p"].body.id /\ ~a.is_published
  /\ requests["p"].status = 403

\* The frame of C23 on the tables themselves: the step that answers such a
\* request changes no table.
C23_NoWrite ==
  [][\A r \in Clients :
       (/\ requests'[r] # requests[r]
        /\ ~requests'[r].auth.authenticated \/ ~requests'[r].auth.supabase)
         => tableVars' = tableVars]_vars

\* C28: every article in the table with is_published = true has a
\* published_at.
C28_PublishedHasTime ==
  \A a \in articles : a.is_published => a.published_at # 0

\* The junction rows of article id that a list of ids asks for.
Supplied(id, ids) == {Link(id, ids[k]) : k \in 1..Len(ids)}

\* Client r's last request is a PUT that was answered 200.
Updated(r) ==
  requests[r].pc = "done" /\ requests[r].method = "PUT" /\ requests[r].status = 200

\* C26: when a PUT that carries finalist_ids, judge_ids or sponsor_ids is
\* answered 200, the article's junction rows of that kind are exactly the
\* supplied ids.
C26_ExactlySupplied ==
  \A r \in Clients :
    Updated(r) =>
      LET body == requests[r].body
      IN  /\ body.finalist_ids.def =>
               LinksOf(article_finalists, body.id) = Supplied(body.id, body.finalist_ids.ids)
          /\ body.judge_ids.def =>
               LinksOf(article_judges, body.id) = Supplied(body.id, body.judge_ids.ids)
          /\ body.sponsor_ids.def =>
               LinksOf(article_sponsors, body.id) = Supplied(body.id, body.sponsor_ids.ids)

\* The rest of what a PUT does to the junction tables: a kind whose field
\* is absent keeps its rows, and so does every other article.
KeepsLinks(links, linksAfter, body, field) ==
  \A id \in ArticleIds :
    (id # body.id \/ ~field.def) => LinksOf(linksAfter, id) = LinksOf(links, id)

C26_Frame ==
  [][\A r \in Clients :
       (requests'[r] # requests[r] /\ requests'[r].method = "PUT") =>
         LET body == requests'[r].body
         IN  /\ KeepsLinks(article_finalists, article_finalists', body, body.finalist_ids)
             /\ KeepsLinks(article_judges, article_judges', body, body.judge_ids)
             /\ KeepsLinks(article_sponsors, article_sponsors', body, body.sponsor_ids)]_vars

\* C24: across PUT requests that carry no published_at, of one client or of
\* two whose reads and updates interleave, a published_at once stored is
\* left unchanged by every later PUT.
C24_SetOnce ==
  [][\A a \in articles :
       a.published_at # 0 =>
         \E b \in articles' : b.id = a.id /\ b.published_at = a.published_at]_vars

\* Client r's last request is a public listing that was answered 200.
Listing(r) ==
  requests[r].pc = "done" /\ requests[r].method = PublicGet /\ requests[r].status = 200

\* C22: whatever type, search, judge, limit and offset are, every article
\* in the response of the public GET /api/articles has is_published = true.
C22_PublishedOnly ==
  \A r \in Clients : Listing(r) => \A a \in requests[r].data : a.is_published

\* A signed-in user asks for the articles of a judge who is linked to a
\* draft and to a published article, and is given articles.
C22_Witness ==
  \E r \in Clients :
    /\ Listing(r)
    /\ requests[r].auth = Session("authenticated")
    /\ requests[r].data # {}
    /\ \E d \in articles :
         ~d.is_published /\ Link(d.id, requests[r].query.judge) \in article_judges

\* A signed-in user searches for a word that is in the title of a draft
\* and of a published article, gives a limit and an offset, and is given
\* articles.
C22_WitnessSearch ==
  \E r \in Clients :
    /\ Listing(r)
    /\ requests[r].auth = Session("authenticated")
    /\ requests[r].query.judge = 0 /\ requests[r].query.search # <<>>
    /\ requests[r].query.limit # "" /\ requests[r].query.offset # ""
    /\ requests[r].data # {}
    /\ \E d \in articles : ~d.is_published /\ ILike(d.title, requests[r].query.search)

\* The call of addContactToList has ended.
Settled == brevo.pc \in {"resolved", "rejected"}

LastReceived == brevo.received[Len(brevo.received)]

\* The requests of a call: at most two; a second one exactly when the
\* first response is not ok and the contact has a phone number; no SMS
\* attribute in the second one.
RetryWithoutPhone ==
  /\ Len(brevo.sent) <= 2
  /\ Len(brevo.sent) = 2 <=>
       /\ Len(brevo.received) >= 1
       /\ ~ResponseOk(brevo.received[1])
       /\ brevo.contact.phone # ""
  /\ Len(brevo.sent) = 2 => \A at \in brevo.sent[2].attributes : at.key # "SMS"

\* The call fails exactly when the last response is not ok or a request
\* threw, and then with the general error.
FailsOnLastResponse ==
  /\ brevo.pc = "rejected" <=>
       \/ brevo.threw
       \/ brevo.received # <<>> /\ ~ResponseOk(LastReceived)
  /\ brevo.pc = "rejected" => brevo.error = GENERAL_ERROR

\* C25 as stated: whatever the contact and the list, the requests are as
\* above and the call fails exactly when the last response is not ok or a
\* request threw.
C25_Original == RetryWithoutPhone /\ (Settled => FailsOnLastResponse)

\* C25: with an API key the requests are as above and the call fails with
\* the general error exactly when the last response is not ok or a request
\* threw; without one no request is sent and the call fails with the
\* general error.
C25_RetryWithoutPhone ==
  /\ RetryWithoutPhone
  /\ (Settled /\ brevo.key) => FailsOnLastResponse
  /\ (Settled /\ ~brevo.key) =>
       brevo.sent = <<>> /\ brevo.pc = "rejected" /\ brevo.error = GENERAL_ERROR

\* A contact with a phone number was refused, sent again without the phone
\* number and accepted.
C25_Witness ==
  /\ brevo.pc = "resolved" /\ brevo.key
  /\ Len(brevo.sent) = 2 /\ Len(brevo.received) = 2
  /\ \E at \in brevo.sent[1].attributes : at.key = "SMS"

\* Refused twice.
C25_WitnessRefused ==
  brevo.pc = "rejected" /\ Len(brevo.received) = 2 /\ ~brevo.threw

\* No API key.
C25_WitnessNoKey == brevo.pc = "rejected" /\ ~brevo.key

=============================================================================
